---- MODULE Spec2Model ----
(***************************************************************************)
(* A model of git-downloader: the asset acquisition engine                 *)
(* (downloader/downloader.go: downloadFileWithProxyList and                *)
(* downloadWithProgress), the batch dispatcher of main.go, the four        *)
(* Process* functions with their release and asset loops, and the          *)
(* integrity verifier (verifyFiles, verifyChecksumFile).                   *)
(*                                                                         *)
(* Strings the code searches, splits or rewrites (URLs, hex digests, file  *)
(* names, manifest lines) are sequences of tokens, so that                 *)
(* strings.Contains, strings.Replace, strings.EqualFold, strings.Fields    *)
(* and filepath.Base are computed and not assumed.  SHA-256 is abstracted  *)
(* by an injective encoding of the content into lower-case hex tokens.     *)
(* For the engine the file system is two paths: the final path and final   *)
(* path + ".tmp"; for the Process* functions it is one directory per       *)
(* release tag.  os.Remove of a closed file is taken to succeed (the code  *)
(* ignores its result); os.Remove of a file the process still holds open   *)
(* succeeds on the POSIX builds and fails on the Windows build (the        *)
(* Makefile builds both), where os.Create opens without delete sharing.    *)
(*                                                                         *)
(* Specifications: Spec (one asset, call after call), SpecBatch (main's    *)
(* dispatcher), SpecMain (main from its first line to the exit status:     *)
(* start-up, the positional arguments or LoadRepos, the Process* calls as  *)
(* their callers see them), SpecRepo (one Process* call into a new         *)
(* download tree), SpecVerify (verifyFiles over any release directory)     *)
(* and SpecRuns (ProcessRepo run after run on one release); SpecFair and   *)
(* SpecBatchFair are Spec and SpecBatch under the scheduling the program   *)
(* runs with, for the termination properties.                              *)
(***************************************************************************)
EXTENDS Integers, Sequences, FiniteSets, TLC

\* ------------------------------------------------------------- bounds
\* Longest file content, in bytes, that the transport serves or the disk holds.
MaxSize == 1
\* Longest global mirror list (proxies.txt).
MaxProxies == 2
\* Most repositories in repos.conf.
MaxRepos == 3
\* Largest value of the -j flag.
MaxConcurrent == 2

\* ---------------------------------------------------- program constants
maxRetries == 3
defaultProxy == "gh-proxy.com"

\* ------------------------------------------------------------ strings
\* strings.Contains on token sequences.
Contains(s, sub) ==
    \E i \in 1..(Len(s) - Len(sub) + 1) : SubSeq(s, i, i + Len(sub) - 1) = sub

\* Index of the first occurrence of sub in s, 0 when there is none.
IndexOf(s, sub) ==
    IF Contains(s, sub)
    THEN CHOOSE i \in 1..(Len(s) - Len(sub) + 1) :
            /\ SubSeq(s, i, i + Len(sub) - 1) = sub
            /\ \A j \in 1..(i - 1) : SubSeq(s, j, j + Len(sub) - 1) # sub
    ELSE 0

\* strings.Replace(s, old, new, 1): the first occurrence only.
ReplaceFirst(s, old, new) ==
    LET i == IndexOf(s, old) IN
    IF i = 0 THEN s
    ELSE SubSeq(s, 1, i - 1) \o new \o SubSeq(s, i + Len(old), Len(s))

\* Lower-case folding of one hex token.
ToLower(ch) ==
    CASE ch = "A" -> "a"
      [] ch = "B" -> "b"
      [] ch = "E" -> "e"
      [] OTHER -> ch

ToUpper(ch) ==
    CASE ch = "a" -> "A"
      [] ch = "b" -> "B"
      [] ch = "e" -> "E"
      [] OTHER -> ch

\* strings.EqualFold.
EqualFold(a, b) ==
    /\ Len(a) = Len(b)
    /\ \A i \in 1..Len(a) : ToLower(a[i]) = ToLower(b[i])

\* -------------------------------------------------------------- files
\* The builds of the Makefile, as far as the file system differs.
Platforms == {"posix", "windows"}

Bytes == {"x", "y"}
Contents == UNION {[1..n -> Bytes] : n \in 0..MaxSize}

NoFile == [exists |-> FALSE, data |-> <<>>, readable |-> FALSE]
File(c, r) == [exists |-> TRUE, data |-> c, readable |-> r]
Files == {NoFile} \cup {File(c, r) : c \in Contents, r \in BOOLEAN}

\* hex.EncodeToString(sha256(content)): lower case, never empty, injective.
SHA256Hex(c) ==
    <<"e">> \o [i \in 1..Len(c) |-> IF c[i] = "x" THEN "a" ELSE "b"]

UpperHex(h) == [i \in 1..Len(h) |-> ToUpper(h[i])]

\* What a SHA512SUMS manifest lists for a file: the hex SHA-512 of its
\* content, twice as long as a SHA-256 digest and equal to none.
SHA512Hex(c) ==
    <<"e", "e">> \o [i \in 1..(2 * Len(c)) |->
                        IF c[(i + 1) \div 2] = "x" THEN "a" ELSE "b"]

\* computeSHA256: the digest, or an error when the file cannot be opened or read.
computeSHA256(f) ==
    IF f.exists /\ f.readable
    THEN [err |-> FALSE, hash |-> SHA256Hex(f.data)]
    ELSE [err |-> TRUE, hash |-> <<>>]

\* Fault: the comparison with the expected digest is dropped.
verifySHA256Lax(f, expected) ==
    [ok |-> ~computeSHA256(f).err, err |-> computeSHA256(f).err]

\* Fault: the digests are compared with == in place of strings.EqualFold.
verifySHA256CaseSensitive(f, expected) ==
    LET r == computeSHA256(f) IN
    IF r.err THEN [ok |-> FALSE, err |-> TRUE]
    ELSE [ok |-> r.hash = expected, err |-> FALSE]

\* verifySHA256: (ok, err).
verifySHA256(f, expected) ==
    LET r == computeSHA256(f) IN
    IF r.err THEN [ok |-> FALSE, err |-> TRUE]
    ELSE [ok |-> EqualFold(r.hash, expected), err |-> FALSE]

\* --------------------------------------------------------------- URLs
GithubURL == <<"https://", "github.com", "/o/r/releases/download/v1/a.zip">>
RyujinxURL == <<"https://", "git.ryujinx.app", "/o/r/-/releases/v1/a.zip">>
GitlabComURL == <<"https://", "gitlab.com", "/g/p/-/releases/v1/a.zip">>
Urls == {GithubURL, RyujinxURL, GitlabComURL}

\* The global mirror list is a prefix of this list of distinct hosts.
MirrorPool == <<"m1", "m2", "m3", "m4">>
ProxyLists == {SubSeq(MirrorPool, 1, k) : k \in 0..MaxProxies}
ForcedProxies == {"", "mX"}

\* An absent expectedSHA256 ("") is the empty sequence.
ExpectedHashes ==
    {<<>>} \cup {SHA256Hex(c) : c \in Contents}
           \cup {UpperHex(SHA256Hex(c)) : c \in Contents}

\* ------------------------------------------------------------- state
VARIABLES
    goos,
    url, expectedSize, expectedSHA256, specifiedProxy, proxies,
    final, tmp,
    pc, result, proxyIdx, attempt, reqURL, lastErr,
    tries, xferOk, aborted, existing,
    concurrent, nRepos, mainPc, loopIdx, wg, sem, task, outcome,
    provider, mode, server, reply, fetchErr, rpc, fetched, relIdx, assetIdx,
    downloadedFiles, tree, ret, assetLog, releaseLog, vpath, generated, runs,
    args, conf, repos, cli, apiURL, exitStatus, localPath

vars == <<goos, url, expectedSize, expectedSHA256, specifiedProxy, proxies,
          final, tmp, pc, result, proxyIdx, attempt, reqURL, lastErr,
          tries, xferOk, aborted, existing,
          concurrent, nRepos, mainPc, loopIdx, wg, sem, task, outcome,
          provider, mode, server, reply, fetchErr, rpc, fetched, relIdx,
          assetIdx, downloadedFiles, tree, ret, assetLog, releaseLog, vpath,
          generated, runs, args, conf, repos, cli, apiURL, exitStatus, localPath>>

\* The state of main's batch dispatcher.
batchVars == <<concurrent, nRepos, mainPc, loopIdx, wg, sem, task, outcome,
               localPath>>

\* The state of one Process* call: the provider's releases, the call's
\* position and locals, the release directory being filled, and what the
\* log says about each asset and release.
repoVars == <<provider, mode, server, reply, fetchErr, rpc, fetched, relIdx,
              assetIdx, downloadedFiles, tree, ret, assetLog, releaseLog,
              vpath, generated, runs>>

\* What main works from: the positional arguments, repos.conf, the parsed
\* single-repository selection and the loaded repository list.
frontVars == <<args, conf, repos, cli>>

\* main's inputs, the URL of the metadata request made for each repository,
\* and the exit status of the process (-1 while it runs).
mainVars == <<frontVars, apiURL, exitStatus>>

\* The state of one downloadFileWithProxyList call and of the two paths.
engineVars == <<goos, url, expectedSize, expectedSHA256, specifiedProxy, proxies,
                final, tmp, pc, result, proxyIdx, attempt, reqURL, lastErr,
                tries, xferOk, aborted, existing>>

\* What no step of a download changes: the platform, the call's arguments,
\* the Downloader's mirror list, the dispatcher and the Process* call.
inputs == <<goos, url, expectedSize, expectedSHA256, specifiedProxy, proxies,
            batchVars, repoVars, mainVars>>

\* ------------------------------------------------- mirror selection
\* Fault: only the default instance is recognised.
isGitLabURLDefaultHostOnly(u) ==
    Contains(u, <<"git.ryujinx.app">>)

\* GitLab test of downloadFileWithProxyList.
isGitLabURL(u) ==
    Contains(u, <<"git.ryujinx.app">>) \/ Contains(u, <<"gitlab.com">>)

\* Fault: the forced mirror is put in front of the global list.
proxiesToTryForcedFirst(forced, global) ==
    IF forced # "" THEN <<forced>> \o global
    ELSE IF Len(global) = 0 THEN <<defaultProxy>>
    ELSE global

\* The candidate mirror list.
proxiesToTry(forced, global) ==
    IF forced # "" THEN <<forced>>
    ELSE IF Len(global) = 0 THEN <<defaultProxy>>
    ELSE global

\* The URL requested through one mirror.
proxyURL(u, proxy) ==
    ReplaceFirst(u, <<"https://", "github.com">>,
                    <<"https://", proxy, "/", "github.com">>)

\* The URL of each pass of the outer loop: the origin alone on the direct
\* path, one rewritten URL per candidate mirror otherwise.
Targets ==
    IF isGitLabURL(url) THEN <<url>>
    ELSE LET P == proxiesToTry(specifiedProxy, proxies) IN
         [i \in 1..Len(P) |-> proxyURL(url, P[i])]

\* The post-transfer size check: guarded by expectedSize > 0 on the direct
\* path (line 611), unguarded on the mirror path (line 676).
sizeCheckFails(direct, size, f) ==
    IF direct THEN size > 0 /\ Len(f.data) # size
    ELSE Len(f.data) # size

\* Fault: the digest of the existing file is compared case-sensitively.
checkExistingCaseSensitive(f, size, hash) ==
    IF ~f.exists THEN "absent"
    ELSE IF Len(f.data) = size
         THEN IF hash # <<>>
              THEN IF computeSHA256(f).hash = hash THEN "complete" ELSE "redownload"
              ELSE "complete"
         ELSE "redownload"

\* Fault: an asset without a known size (expectedSize = 0, no hash) is taken
\* as complete whenever a file exists.
checkExistingSkipsUnknownSize(f, size, hash) ==
    IF ~f.exists THEN "absent"
    ELSE IF size = 0 /\ hash = <<>> THEN "complete"
    ELSE IF Len(f.data) = size
         THEN IF hash # <<>>
              THEN IF verifySHA256(f, hash).ok THEN "complete" ELSE "redownload"
              ELSE "complete"
         ELSE "redownload"

\* The existing-file check at the head of downloadFileWithProxyList.
checkExisting(f, size, hash) ==
    IF ~f.exists THEN "absent"
    ELSE IF Len(f.data) = size
         THEN IF hash # <<>>
              THEN IF verifySHA256(f, hash).ok THEN "complete" ELSE "redownload"
              ELSE "complete"
         ELSE "redownload"

\* ------------------------------------------ releases and directories
\* Release tags, newest first; a provider lists at most MaxReleases.
TagPool == <<"v1", "v2", "v3", "v4">>

NotesName == <<"release_notes.txt">>
ArchiveName == <<"a.zip">>
SumsName == <<"SHA256SUMS">>
GeneratedName == <<"checksums.txt">>

\* A file name is a token sequence; " " is a blank inside a name.
SpacedName == <<"my", " ", "f.zip">>

\* Every name a release directory of the model can hold, in the byte order
\* in which os.ReadDir returns them.
SortedNames ==
    <<SumsName, <<"SHA512SUMS">>, ArchiveName, GeneratedName, SpacedName,
      NotesName, <<"sha256sum.txt">>, <<"sha512sum.txt">>>>
    \o [i \in 1..Len(TagPool) |-> <<TagPool[i], "_checksums.txt">>]

\* A directory maps the names of its entries to files.
EmptyDir == [n \in {} |-> NoFile]
Lookup(d, n) == IF n \in DOMAIN d THEN d[n] ELSE NoFile
Put(d, n, f) == [m \in (DOMAIN d) \cup {n} |-> IF m = n THEN f ELSE d[m]]
Remove(d, n) == [m \in (DOMAIN d) \ {n} |-> d[m]]

\* topDir/repo: the release directory of each tag; a directory not made
\* yet is empty.
EmptyTree == [t \in {TagPool[k] : k \in 1..Len(TagPool)} |-> EmptyDir]

\* Fault: checksums.txt is looked for first.
checksumFilesGeneratedFirst(tag) ==
    <<GeneratedName, SumsName, <<"SHA512SUMS">>, <<"sha256sum.txt">>,
      <<"sha512sum.txt">>, <<tag, "_checksums.txt">>>>

\* The names verifyFiles looks for, in its order.
checksumFiles(tag) ==
    <<SumsName, <<"SHA512SUMS">>, <<"sha256sum.txt">>, <<"sha512sum.txt">>,
      GeneratedName, <<tag, "_checksums.txt">>>>

\* fmt.Fprintf(f, "%s  %s\n", hash, name): one line of a manifest.
checksumLine(hash, name) == hash \o <<" ", " ">> \o name

\* strings.TrimSpace.
RECURSIVE TrimLeft(_)
TrimLeft(s) ==
    IF s # <<>> /\ Head(s) = " " THEN TrimLeft(Tail(s)) ELSE s

RECURSIVE TrimRight(_)
TrimRight(s) ==
    IF s # <<>> /\ s[Len(s)] = " " THEN TrimRight(SubSeq(s, 1, Len(s) - 1)) ELSE s

TrimSpace(s) == TrimRight(TrimLeft(s))

\* strings.Fields: the maximal runs of non-blank tokens.
RECURSIVE Fields(_)
Fields(s) ==
    IF s = <<>> THEN <<>>
    ELSE IF Head(s) = " " THEN Fields(Tail(s))
    ELSE LET n == IF \E i \in 1..Len(s) : s[i] = " "
                  THEN CHOOSE i \in 1..Len(s) :
                          s[i] = " " /\ \A j \in 1..(i - 1) : s[j] # " "
                  ELSE Len(s) + 1
         IN <<SubSeq(s, 1, n - 1)>> \o Fields(SubSeq(s, n, Len(s)))

\* filepath.Base for a path without trailing separators.
Base(path) ==
    IF path = <<>> THEN <<".">>
    ELSE LET seps == {i \in 1..Len(path) : path[i] = "/"}
             last == IF seps = {} THEN 0
                     ELSE CHOOSE i \in seps : \A j \in seps : j <= i
         IN SubSeq(path, last + 1, Len(path))

\* The digest field of a GitHub asset: "sha256:" and the hex digest.
Digest(c) == <<"sha256:">> \o SHA256Hex(c)

\* extractSHA256: the hex run after the first "sha256:" when it is a whole
\* digest (64 hex digits in the code), "" otherwise.
extractSHA256(digest) ==
    IF digest = <<>> THEN <<>>
    ELSE LET i == IndexOf(digest, <<"sha256:">>)
             rest == SubSeq(digest, i + 1, Len(digest))
         IN IF i # 0 /\ rest \in ExpectedHashes \ {<<>>} THEN rest ELSE <<>>

\* Fault: a line's digest is looked at only when the file is missing.
lineFailsMissingOnly(line, d) ==
    LET parts == Fields(TrimSpace(line)) IN
    IF Len(parts) < 2 THEN FALSE
    ELSE LET raw == parts[2]
             filename == Base(IF Head(raw) = "*" THEN Tail(raw) ELSE raw)
         IN computeSHA256(Lookup(d, filename)).err

\* Fault: a listed digest is also accepted when it is the file's SHA-512.
lineFailsAcceptsSHA512(line, d) ==
    LET parts == Fields(TrimSpace(line)) IN
    IF Len(parts) < 2 THEN FALSE
    ELSE LET expectedHash == parts[1]
             raw == parts[2]
             filename == Base(IF Head(raw) = "*" THEN Tail(raw) ELSE raw)
             r == computeSHA256(Lookup(d, filename))
         IN \/ r.err
            \/ /\ ~EqualFold(r.hash, expectedHash)
               /\ ~EqualFold(SHA512Hex(Lookup(d, filename).data), expectedHash)

\* One line of verifyChecksumFile's loop: TRUE when it returns an error.
lineFails(line, d) ==
    LET parts == Fields(TrimSpace(line)) IN
    IF Len(parts) < 2 THEN FALSE
    ELSE LET expectedHash == parts[1]
             raw == parts[2]
             filename == Base(IF Head(raw) = "*" THEN Tail(raw) ELSE raw)
             r == computeSHA256(Lookup(d, filename))
         IN r.err \/ ~EqualFold(r.hash, expectedHash)

\* verifyChecksumFile: TRUE when it returns an error (the manifest cannot be
\* opened, or the first failing line).  Lines are short, so the scanner
\* itself does not fail.
verifyChecksumFile(m, d) ==
    \/ ~m.readable
    \/ \E i \in 1..Len(m.data) : lineFails(m.data[i], d)

\* The lines verifyFiles writes into checksums.txt: one per entry other than
\* checksums.txt whose digest can be computed, in os.ReadDir's order.
generatedLines(d) ==
    LET listed(n) == /\ n \in DOMAIN d
                     /\ n # GeneratedName
                     /\ ~computeSHA256(d[n]).err
        names == SelectSeq(SortedNames, listed)
    IN [i \in 1..Len(names) |-> checksumLine(computeSHA256(d[names[i]]).hash, names[i])]

\* The first loop of verifyFiles.
allHaveHash(release) ==
    \A i \in 1..Len(release.assets) :
        extractSHA256(release.assets[i].digest) # <<>>

\* verifyFiles on directory d: the error flag, the directory afterwards, the
\* branch taken and the manifest read.  createOk: os.Create of checksums.txt
\* succeeds; os.ReadDir of the directory just written to is taken to succeed.
verifyFiles(d, release, createOk) ==
    IF allHaveHash(release)
    THEN [err |-> FALSE, dir |-> d, path |-> "skipped", manifest |-> <<>>]
    ELSE LET names == checksumFiles(release.tag)
             found == {i \in 1..Len(names) : names[i] \in DOMAIN d}
         IN IF found # {}
            THEN LET k == CHOOSE i \in found : \A j \in found : i <= j
                 IN [err |-> verifyChecksumFile(d[names[k]], d), dir |-> d,
                     path |-> "manifest", manifest |-> names[k]]
            ELSE IF ~createOk
            THEN [err |-> TRUE, dir |-> d, path |-> "generate", manifest |-> <<>>]
            ELSE [err |-> FALSE,
                  dir |-> Put(d, GeneratedName, File(generatedLines(d), TRUE)),
                  path |-> "generate", manifest |-> <<>>]

\* release.Body as written to release_notes.txt; "y" stands for the text
\* "No release notes provided".
notesContent(body) == IF body = <<>> THEN <<"y">> ELSE body

\* ------------------------------------------- command line and repos.conf
\* Strings of the command line and of repos.conf are token sequences, ""
\* the empty one; a line's blanks are " " tokens.
Gitlab == <<"gitlab">>
Github == <<"github">>
All == <<"all">>
DefaultHost == <<"git.ryujinx.app">>

\* RepoConfig.
RepoConfig(type, owner, repo, proxy, host) ==
    [Type |-> type, Owner |-> owner, Repo |-> repo, Proxy |-> proxy,
     GitLabHost |-> host]

\* One line of repos.conf as LoadRepos reads it: skipped, or a RepoConfig.
parseLine(raw) ==
    LET line == TrimSpace(raw)
        parts == Fields(line)
        n == Len(parts)
        skipped == [skip |-> TRUE,
                    cfg |-> RepoConfig(<<>>, <<>>, <<>>, <<>>, <<>>)]
        kept(c) == [skip |-> FALSE, cfg |-> c]
    IN  IF line = <<>> \/ line[1] = "#" THEN skipped
        ELSE IF n < 2 THEN skipped
        ELSE IF parts[1] = Github
        THEN IF n < 3 THEN skipped
             ELSE kept(RepoConfig(parts[1], parts[2], parts[3],
                                  IF n >= 4 THEN parts[4] ELSE <<>>, <<>>))
        ELSE IF parts[1] = Gitlab
        THEN IF n >= 4
             THEN kept(RepoConfig(parts[1], parts[3], parts[4],
                                  IF n >= 5 THEN parts[5] ELSE <<>>, parts[2]))
             ELSE IF n >= 3
             THEN kept(RepoConfig(parts[1], parts[2], parts[3],
                                  IF n >= 4 THEN parts[4] ELSE <<>>,
                                  DefaultHost))
             ELSE skipped
        ELSE kept(RepoConfig(Github, parts[1], parts[2],
                             IF n >= 3 THEN parts[3] ELSE <<>>, <<>>))

\* The scanner loop of LoadRepos: the lines kept, in file order.
RECURSIVE loadLines(_)
loadLines(ls) ==
    IF ls = <<>> THEN <<>>
    ELSE (IF parseLine(Head(ls)).skip THEN <<>> ELSE <<parseLine(Head(ls)).cfg>>)
         \o loadLines(Tail(ls))

\* LoadRepos: an error when the file cannot be opened or read.
LoadRepos(f) ==
    IF f.readable THEN [err |-> FALSE, repos |-> loadLines(f.lines)]
    ELSE [err |-> TRUE, repos |-> <<>>]

\* main's reading of two or more positional arguments.
parseArgs(a) ==
    IF a[1] = Gitlab
    THEN IF Len(a) >= 4
         THEN [isGitLab |-> TRUE, gitLabHost |-> a[2], owner |-> a[3],
               repo |-> a[4], downloadAll |-> Len(a) >= 5 /\ a[5] = All]
         ELSE IF Len(a) >= 3
         THEN [isGitLab |-> TRUE, gitLabHost |-> <<>>, owner |-> a[2],
               repo |-> a[3], downloadAll |-> Len(a) >= 4 /\ a[4] = All]
         ELSE [isGitLab |-> FALSE, gitLabHost |-> <<>>, owner |-> <<>>,
               repo |-> <<>>, downloadAll |-> FALSE]
    ELSE [isGitLab |-> FALSE, gitLabHost |-> <<>>, owner |-> a[1],
          repo |-> a[2], downloadAll |-> Len(a) >= 3 /\ a[3] = All]

\* fmt.Sprintf of the API formats.
githubAPI(owner, repo) ==
    <<"https://", "api.github.com", "/repos/">> \o owner \o <<"/">> \o repo
        \o <<"/releases/latest">>

githubAPIAll(owner, repo) ==
    <<"https://", "api.github.com", "/repos/">> \o owner \o <<"/">> \o repo
        \o <<"/releases">>

gitlabAPIAll(owner, repo) ==
    <<"https://", "git.ryujinx.app", "/api/v4/projects/">> \o owner
        \o <<"%2F">> \o repo \o <<"/releases">>

\* The URL of the metadata request a Process* call makes.  main hands the
\* GitLab host over, but ProcessGitLabRepo and ProcessGitLabRepoAll take
\* (owner, repo, specifiedProxy) and their fetch functions build the URL
\* from gitlabAPIAll, owner and repo alone.
metadataURL(isGitLab, all, host, owner, repo) ==
    IF isGitLab THEN gitlabAPIAll(owner, repo)
    ELSE IF all THEN githubAPIAll(owner, repo) ELSE githubAPI(owner, repo)

\* How a Process* call can end: it returns nil, it returns an error (which
\* its caller only logs), or it panics: the GitLab fetch functions and
\* ProcessRepoAll dereference the elements of the decoded list, which are
\* nil when the server answers [null].
outcomesOf(isGitLab, all) ==
    IF isGitLab \/ all THEN {"ok", "err", "panic"} ELSE {"ok", "err"}

\* Sample strings: an owner, a repository, a custom GitLab host, a mirror.
OwnerName == <<"o">>
RepoName == <<"r">>
CustomHost == <<"git.example.com">>
ProxyName == <<"mX">>

\* A second owner.
OtherOwner == <<"o2">>

\* A line (or an argument list shown as one line) from its fields.
RECURSIVE Join(_)
Join(fs) ==
    IF fs = <<>> THEN <<>>
    ELSE IF Len(fs) = 1 THEN fs[1]
    ELSE fs[1] \o <<" ">> \o Join(Tail(fs))

\* The positional arguments main can be started with: none or one (batch
\* mode) and the forms of the usage text, with and without `all`.
ArgLists ==
    {<<>>, <<OwnerName>>,
     <<OwnerName, RepoName>>, <<OwnerName, RepoName, All>>,
     <<Gitlab, OwnerName>>,
     <<Gitlab, OwnerName, RepoName>>, <<Gitlab, OwnerName, RepoName, All>>,
     <<Gitlab, CustomHost, OwnerName, RepoName>>,
     <<Gitlab, CustomHost, OwnerName, RepoName, All>>}

\* Lines of repos.conf: the documented formats with and without a proxy, a
\* comment, a blank line, a line too short, and a line with blanks around.
FormatLines ==
    {Join(fs) : fs \in
        {<<Github, OwnerName, RepoName>>,
         <<Github, OwnerName, RepoName, ProxyName>>,
         <<Gitlab, OwnerName, RepoName>>,
         <<Gitlab, OwnerName, RepoName, ProxyName>>,
         <<Gitlab, CustomHost, OwnerName, RepoName>>,
         <<Gitlab, CustomHost, OwnerName, RepoName, ProxyName>>,
         <<OwnerName, RepoName>>,
         <<OwnerName, RepoName, ProxyName>>}}

OtherLines ==
    {<<"#", " ", "o", " ", "r">>, <<" ">>, <<"github", " ", "o">>,
     <<" ", "o", " ", " ", "r", " ">>}

\* Most lines of a repos.conf with more than one line.
MaxLines == 2

\* repos.conf: missing or unreadable, one line of any kind, or up to
\* MaxLines lines mixing a GitHub line, a GitLab line and a comment.
Confs ==
    {[readable |-> FALSE, lines |-> <<>>]}
    \cup {[readable |-> TRUE, lines |-> <<l>>] : l \in FormatLines \cup OtherLines}
    \cup {[readable |-> TRUE, lines |-> ls] :
            ls \in UNION {[1..n -> {Join(<<OwnerName, RepoName>>),
                                     Join(<<Gitlab, OwnerName, RepoName>>),
                                     <<"#", " ", "o", " ", "r">>}] :
                             n \in 0..MaxLines}}

\* ------------------------------------------------------ initial state
\* No Process* call is under way.
NoAssetLog == [r \in 1..Len(TagPool) |-> <<>>]
NoReleaseLog == [r \in 1..Len(TagPool) |-> "none"]

RepoIdle ==
    /\ provider = "github"
    /\ mode = "latest"
    /\ server = <<>>
    /\ reply = "none"
    /\ fetchErr = "none"
    /\ rpc = "off"
    /\ fetched = <<>>
    /\ relIdx = 0
    /\ assetIdx = 0
    /\ downloadedFiles = <<>>
    /\ tree = EmptyTree
    /\ ret = "none"
    /\ assetLog = NoAssetLog
    /\ releaseLog = NoReleaseLog
    /\ vpath = "none"
    /\ generated = {}
    /\ runs = 0

\* No task is transferring an asset.
NoPaths == [i \in 1..MaxRepos |-> <<>>]

\* The dispatcher before main reaches the batch branch.
BatchIdle ==
    /\ concurrent = 0
    /\ nRepos = 0
    /\ mainPc = "off"
    /\ loopIdx = 0
    /\ wg = 0
    /\ sem = 0
    /\ task = [i \in 1..MaxRepos |-> "none"]
    /\ outcome = [i \in 1..MaxRepos |-> "none"]
    /\ localPath = NoPaths

\* No request made; the process runs.
NoRequests == [i \in 1..MaxRepos |-> <<>>]
NoSelection ==
    [isGitLab |-> FALSE, gitLabHost |-> <<>>, owner |-> <<>>, repo |-> <<>>,
     downloadAll |-> FALSE]

\* main is not looked at: nothing read, nothing requested by it.
MainIdle ==
    /\ args = <<>>
    /\ conf = [readable |-> TRUE, lines |-> <<>>]
    /\ repos = <<>>
    /\ cli = NoSelection
    /\ apiURL = NoRequests
    /\ exitStatus = -1

ZeroTries == [i \in 1..Len(Targets) |-> 0]
NoFlags == [i \in 1..Len(Targets) |-> FALSE]

Init ==
    /\ goos \in Platforms
    /\ url \in Urls
    /\ expectedSize \in 0..MaxSize
    /\ expectedSHA256 \in ExpectedHashes
    /\ specifiedProxy \in ForcedProxies
    /\ proxies \in ProxyLists
    /\ final \in Files
    /\ tmp = NoFile
    /\ pc = "idle"
    /\ result = "none"
    /\ proxyIdx = 0
    /\ attempt = 0
    /\ reqURL = <<>>
    /\ lastErr = "none"
    /\ tries = ZeroTries
    /\ xferOk = NoFlags
    /\ aborted = NoFlags
    /\ existing = "none"
    /\ BatchIdle
    /\ RepoIdle
    /\ MainIdle

\* ------------------------------------------------------- loop control
\* Fault: `return` in place of `break`.
BreakLoopReturns ==
    /\ pc' = "done"
    /\ result' = "err"
    /\ UNCHANGED <<proxyIdx, attempt, reqURL>>

\* `break` of the retry loop, or its end: the next target, or the error
\* return once the targets are used up.
BreakLoop ==
    IF proxyIdx < Len(Targets)
    THEN /\ proxyIdx' = proxyIdx + 1
         /\ attempt' = 1
         /\ reqURL' = Targets[proxyIdx + 1]
         /\ pc' = "create"
         /\ result' = result
    ELSE /\ pc' = "done"
         /\ result' = "err"
         /\ UNCHANGED <<proxyIdx, attempt, reqURL>>

\* Fault: `break` in place of `continue`.
ContinueLoopNoRetry ==
    IF proxyIdx < Len(Targets)
    THEN /\ proxyIdx' = proxyIdx + 1
         /\ attempt' = 1
         /\ reqURL' = Targets[proxyIdx + 1]
         /\ pc' = "create"
         /\ result' = result
    ELSE /\ pc' = "done"
         /\ result' = "err"
         /\ UNCHANGED <<proxyIdx, attempt, reqURL>>

\* `continue` of the retry loop: the next attempt against the same target
\* while the budget lasts.
ContinueLoop ==
    IF attempt < maxRetries
    THEN /\ attempt' = attempt + 1
         /\ pc' = "create"
         /\ UNCHANGED <<proxyIdx, reqURL, result>>
    ELSE BreakLoop

\* ------------------------------------------- downloadFileWithProxyList
\* A call for the asset (the same asset on every call).
Call ==
    /\ pc \in {"idle", "done"}
    /\ pc' = "check"
    /\ result' = "none"
    /\ proxyIdx' = 0
    /\ attempt' = 0
    /\ reqURL' = <<>>
    /\ lastErr' = "none"
    /\ tries' = ZeroTries
    /\ xferOk' = NoFlags
    /\ aborted' = NoFlags
    /\ existing' = "none"
    /\ UNCHANGED <<inputs, final, tmp>>

\* Existing file complete: return nil without any transfer.
CheckExistingComplete ==
    /\ pc = "check"
    /\ checkExisting(final, expectedSize, expectedSHA256) = "complete"
    /\ pc' = "done"
    /\ result' = "ok"
    /\ existing' = "complete"
    /\ UNCHANGED <<inputs, final, tmp, proxyIdx, attempt, reqURL, lastErr,
                   tries, xferOk, aborted>>

\* Fault: the mismatching file is left at the final path.
CheckExistingKeepsFile ==
    /\ pc = "check"
    /\ checkExisting(final, expectedSize, expectedSHA256) # "complete"
    /\ pc' = "create"
    /\ proxyIdx' = 1
    /\ attempt' = 1
    /\ reqURL' = Targets[1]
    /\ existing' = checkExisting(final, expectedSize, expectedSHA256)
    /\ UNCHANGED <<inputs, final, tmp, result, lastErr, tries, xferOk, aborted>>

\* No file, or a mismatching one (removed): enter the first loop pass.
CheckExistingDownload ==
    /\ pc = "check"
    /\ checkExisting(final, expectedSize, expectedSHA256) # "complete"
    /\ final' = NoFile
    /\ pc' = "create"
    /\ proxyIdx' = 1
    /\ attempt' = 1
    /\ reqURL' = Targets[1]
    /\ existing' = checkExisting(final, expectedSize, expectedSHA256)
    /\ UNCHANGED <<inputs, tmp, result, lastErr, tries, xferOk, aborted>>

\* ------------------------------------------------ downloadWithProgress
TransferErrors == {"request", "connect", "status"}

\* os.Remove(tmpPath) inside downloadWithProgress: `out` is closed only by
\* the deferred out.Close(), after the removal was tried.
removeOpenFile(os, f) ==
    IF os = "windows" THEN f ELSE NoFile

\* A failure inside downloadWithProgress after os.Create, with `written` in
\* the temporary file: removal is tried and the error returned; the caller
\* records it in lastErr and goes on to time.Sleep(retryDelay).
TransferFailed(kind, written) ==
    /\ tmp' = removeOpenFile(goos, File(written, TRUE))
    /\ lastErr' = kind
    /\ pc' = "sleep"
    /\ UNCHANGED <<inputs, existing, final, result, proxyIdx, attempt, reqURL,
                   tries, xferOk, aborted>>

\* os.Create(tmpPath) succeeds: an empty temporary file (an older one is
\* truncated).
CreateOk ==
    /\ pc = "create"
    /\ tries' = [tries EXCEPT ![proxyIdx] = @ + 1]
    /\ tmp' = File(<<>>, TRUE)
    /\ pc' = "stream"
    /\ existing' = "none"
    /\ UNCHANGED <<inputs, final, result, proxyIdx, attempt, reqURL, lastErr,
                   xferOk, aborted>>

\* os.Create(tmpPath) fails: the error is returned, nothing was created.
CreateFail ==
    /\ pc = "create"
    /\ tries' = [tries EXCEPT ![proxyIdx] = @ + 1]
    /\ lastErr' = "create"
    /\ pc' = "sleep"
    /\ existing' = "none"
    /\ UNCHANGED <<inputs, final, tmp, result, proxyIdx, attempt, reqURL,
                   xferOk, aborted>>

\* Request construction, connection or non-200 status error: nothing was
\* written yet.
StreamFail ==
    /\ pc = "stream"
    /\ \E kind \in TransferErrors : TransferFailed(kind, <<>>)

\* io.Copy fails after writing some part of the body.
StreamCopyFail ==
    /\ pc = "stream"
    /\ \E c \in Contents : TransferFailed("copy", c)

\* The body was copied but its length differs from a known expectedSize.
StreamShort ==
    /\ pc = "stream"
    /\ \E c \in Contents :
          /\ expectedSize > 0 /\ Len(c) # expectedSize
          /\ TransferFailed("short", c)

\* The body was copied with an acceptable length but out.Sync() fails.
StreamSyncFail ==
    /\ pc = "stream"
    /\ \E c \in Contents :
          /\ ~(expectedSize > 0 /\ Len(c) # expectedSize)
          /\ TransferFailed("sync", c)

\* downloadWithProgress returns nil: the body is in the temporary file.
StreamOk ==
    /\ pc = "stream"
    /\ \E c \in Contents :
          /\ ~(expectedSize > 0 /\ Len(c) # expectedSize)
          /\ tmp' = File(c, TRUE)
    /\ xferOk' = [xferOk EXCEPT ![proxyIdx] = TRUE]
    /\ pc' = "rename"
    /\ UNCHANGED <<inputs, existing, final, result, proxyIdx, attempt, reqURL, lastErr,
                   tries, aborted>>

\* Fault: a failed transfer is retried without counting the attempt.
SleepRetriesUncounted ==
    /\ pc = "sleep"
    /\ pc' = "create"
    /\ UNCHANGED <<inputs, existing, final, tmp, lastErr, tries, xferOk, aborted,
                   proxyIdx, attempt, reqURL, result>>

\* time.Sleep(retryDelay); continue.
Sleep ==
    /\ pc = "sleep"
    /\ ContinueLoop
    /\ UNCHANGED <<inputs, existing, final, tmp, lastErr, tries, xferOk, aborted>>

\* ------------------------------------------------- publish and checks
\* os.Rename(tmp, final) succeeds.  Whether the published file can later be
\* read back is the environment's choice.
RenameOk ==
    /\ pc = "rename"
    /\ \E r \in BOOLEAN : final' = [tmp EXCEPT !.readable = r]
    /\ tmp' = NoFile
    /\ pc' = "stat"
    /\ UNCHANGED <<inputs, existing, result, proxyIdx, attempt, reqURL, lastErr,
                   tries, xferOk, aborted>>

\* Fault: a failed rename is retried like a failed transfer, the temporary
\* file left in place.
RenameFailRetries ==
    /\ pc = "rename"
    /\ lastErr' = "rename"
    /\ ContinueLoop
    /\ UNCHANGED <<inputs, existing, final, tmp, tries, xferOk, aborted>>

\* os.Rename fails: the temporary file is removed; break.
RenameFail ==
    /\ pc = "rename"
    /\ lastErr' = "rename"
    /\ tmp' = NoFile
    /\ aborted' = [aborted EXCEPT ![proxyIdx] = TRUE]
    /\ BreakLoop
    /\ UNCHANGED <<inputs, existing, final, tries, xferOk>>

\* os.Stat(localPath) succeeds.
StatOk ==
    /\ pc = "stat"
    /\ pc' = "verify"
    /\ UNCHANGED <<inputs, existing, final, tmp, result, proxyIdx, attempt, reqURL,
                   lastErr, tries, xferOk, aborted>>

\* os.Stat(localPath) fails: the published file is removed; break.
StatFail ==
    /\ pc = "stat"
    /\ lastErr' = "stat"
    /\ final' = NoFile
    /\ aborted' = [aborted EXCEPT ![proxyIdx] = TRUE]
    /\ BreakLoop
    /\ UNCHANGED <<inputs, existing, tmp, tries, xferOk>>

\* Fault: a size mismatch leaves the published file in place.
VerifySizeMismatchKeepsFile ==
    /\ pc = "verify"
    /\ sizeCheckFails(isGitLabURL(url), expectedSize, final)
    /\ lastErr' = "size"
    /\ ContinueLoop
    /\ UNCHANGED <<inputs, existing, final, tmp, tries, xferOk, aborted>>

\* Size mismatch: the published file is removed; continue (no sleep).
VerifySizeMismatch ==
    /\ pc = "verify"
    /\ sizeCheckFails(isGitLabURL(url), expectedSize, final)
    /\ lastErr' = "size"
    /\ final' = NoFile
    /\ ContinueLoop
    /\ UNCHANGED <<inputs, existing, tmp, tries, xferOk, aborted>>

\* verifySHA256 returns an error: the published file is removed; break.
VerifyHashError ==
    /\ pc = "verify"
    /\ ~sizeCheckFails(isGitLabURL(url), expectedSize, final)
    /\ expectedSHA256 # <<>>
    /\ verifySHA256(final, expectedSHA256).err
    /\ lastErr' = "hasherr"
    /\ final' = NoFile
    /\ aborted' = [aborted EXCEPT ![proxyIdx] = TRUE]
    /\ BreakLoop
    /\ UNCHANGED <<inputs, existing, tmp, tries, xferOk>>

\* Fault: a hash mismatch leaves the mirror (`break` in place of `continue`).
VerifyHashMismatchBreaks ==
    /\ pc = "verify"
    /\ ~sizeCheckFails(isGitLabURL(url), expectedSize, final)
    /\ expectedSHA256 # <<>>
    /\ ~verifySHA256(final, expectedSHA256).err
    /\ ~verifySHA256(final, expectedSHA256).ok
    /\ lastErr' = "hash"
    /\ final' = NoFile
    /\ BreakLoop
    /\ UNCHANGED <<inputs, existing, tmp, tries, xferOk, aborted>>

\* Hash mismatch: the published file is removed; continue (no sleep).
VerifyHashMismatch ==
    /\ pc = "verify"
    /\ ~sizeCheckFails(isGitLabURL(url), expectedSize, final)
    /\ expectedSHA256 # <<>>
    /\ ~verifySHA256(final, expectedSHA256).err
    /\ ~verifySHA256(final, expectedSHA256).ok
    /\ lastErr' = "hash"
    /\ final' = NoFile
    /\ ContinueLoop
    /\ UNCHANGED <<inputs, existing, tmp, tries, xferOk, aborted>>

\* Every check passed (or none applies): return nil.
VerifyOk ==
    /\ pc = "verify"
    /\ ~sizeCheckFails(isGitLabURL(url), expectedSize, final)
    /\ \/ expectedSHA256 = <<>>
       \/ /\ ~verifySHA256(final, expectedSHA256).err
          /\ verifySHA256(final, expectedSHA256).ok
    /\ pc' = "done"
    /\ result' = "ok"
    /\ UNCHANGED <<inputs, existing, final, tmp, proxyIdx, attempt, reqURL, lastErr,
                   tries, xferOk, aborted>>

Next ==
    \/ Call
    \/ CheckExistingComplete
    \/ CheckExistingDownload
    \/ CreateOk
    \/ CreateFail
    \/ StreamFail
    \/ StreamCopyFail
    \/ StreamShort
    \/ StreamSyncFail
    \/ StreamOk
    \/ Sleep
    \/ RenameOk
    \/ RenameFail
    \/ StatOk
    \/ StatFail
    \/ VerifySizeMismatch
    \/ VerifyHashError
    \/ VerifyHashMismatch
    \/ VerifyOk

Spec == Init /\ [][Next]_vars

\* Every step of a call returns: each request is bounded by the client's
\* Timeout, the pause by retryDelay, and the file operations do not block;
\* so a call that can take a step eventually takes one.
SpecFair == Spec /\ WF_vars(Next)

\* ---------------------------------------------------------- properties
RECURSIVE SumSeq(_)
SumSeq(q) == IF q = <<>> THEN 0 ELSE Head(q) + SumSeq(Tail(q))

\* Transfer attempts (calls of downloadWithProgress) made by the current call.
TotalTries == SumSeq(tries)

\* The url is one the engine downloads directly (stated from the claim's words).
SelfHosted ==
    \E i \in 1..Len(url) : url[i] \in {"git.ryujinx.app", "gitlab.com"}

\* The digest of the file at the final path equals expectedSHA256 up to the
\* letter case of the hex digits.
FinalHashEquals ==
    /\ Len(expectedSHA256) = Len(SHA256Hex(final.data))
    /\ \A i \in 1..Len(expectedSHA256) :
          expectedSHA256[i] \in {SHA256Hex(final.data)[i],
                                 ToUpper(SHA256Hex(final.data)[i])}

\* C1: a call that finds at the final path a file whose size is expectedSize
\* and whose SHA-256 (as computeSHA256 reads it) equals the present
\* expectedSHA256 returns success at once: no transfer attempt is made and
\* the final and temporary paths are left as they were.
C1_Idempotent ==
    [][(/\ pc = "check"
        /\ final.exists /\ final.readable
        /\ Len(final.data) = expectedSize
        /\ expectedSHA256 # <<>>
        /\ FinalHashEquals)
       => (/\ pc' = "done" /\ result' = "ok"
           /\ final' = final /\ tmp' = tmp
           /\ TotalTries = 0 /\ TotalTries' = 0)]_vars

C1_Witness ==
    /\ pc = "done" /\ result = "ok" /\ TotalTries = 0
    /\ final.exists /\ final.readable
    /\ expectedSize > 0 /\ Len(final.data) = expectedSize
    /\ expectedSHA256 # <<>> /\ FinalHashEquals
    /\ expectedSHA256 # SHA256Hex(final.data)

\* C2 as claimed: when the call returns an error, neither the final path
\* nor the temporary path holds a file.
C2_FailureLeavesNoFile ==
    (pc = "done" /\ result = "err") => (~final.exists /\ ~tmp.exists)

\* C3: when the call returns success after at least one transfer attempt,
\* the file at the final path has size expectedSize if expectedSize > 0 and
\* has the expected digest if expectedSHA256 is present.
C3_SuccessIsVerified ==
    (pc = "done" /\ result = "ok" /\ TotalTries > 0)
        => /\ final.exists
           /\ expectedSize > 0 => Len(final.data) = expectedSize
           /\ expectedSHA256 # <<>> => FinalHashEquals

C3_Witness ==
    /\ pc = "done" /\ result = "ok" /\ TotalTries > 1
    /\ expectedSize > 0 /\ expectedSHA256 # <<>>
    /\ lastErr = "hash"

\* C4 as claimed: when a transfer attempt has returned a request,
\* connection, status, copy, length or flush error to its caller, the
\* temporary file does not exist.
C4_FailedTransferRemovesTmp ==
    (pc = "sleep" /\ lastErr \in {"request", "connect", "status", "copy",
                                  "short", "sync"})
        => ~tmp.exists

\* C5: on the mirror path the mirrors are tried in list order; a mirror all
\* of whose transfers failed has had exactly maxRetries attempts before any
\* later mirror is tried; after a success no later mirror has been tried.
C5_MirrorOrderAndBudget ==
    ~SelfHosted =>
        /\ \A i \in 1..Len(tries) : tries[i] <= maxRetries
        /\ \A i \in 1..Len(tries) : \A j \in (i + 1)..Len(tries) :
              tries[j] > 0 =>
                 /\ tries[i] > 0
                 /\ ~xferOk[i] => tries[i] = maxRetries
        /\ (pc \in {"stream", "sleep", "rename", "stat", "verify"}
               \/ (pc = "done" /\ TotalTries > 0)) =>
              /\ tries[proxyIdx] = attempt
              /\ \A j \in (proxyIdx + 1)..Len(tries) : tries[j] = 0
              /\ reqURL = <<"https://",
                            proxiesToTry(specifiedProxy, proxies)[proxyIdx],
                            "/", "github.com">> \o SubSeq(url, 3, Len(url))
        /\ (pc = "done" /\ result = "ok" /\ TotalTries > 0) => xferOk[proxyIdx]

C5_Witness ==
    /\ ~SelfHosted /\ pc = "done" /\ result = "ok"
    /\ proxies = <<"m1", "m2">> /\ specifiedProxy = ""
    /\ tries = <<maxRetries, 1>> /\ xferOk = <<FALSE, TRUE>>

\* C6 as claimed: whenever the call fails on the mirror path, every
\* candidate mirror has had exactly maxRetries transfer attempts.
C6_Original ==
    (~SelfHosted /\ pc = "done" /\ result = "err")
        => \A i \in 1..Len(tries) : tries[i] = maxRetries

\* C6 as amended: whenever the call fails on the mirror path, every
\* candidate mirror has been attempted, and each has had exactly maxRetries
\* transfer attempts unless its last attempt was cut short by a rename
\* failure, a stat failure or a hash computation error.
C6_ExhaustionOrAbort ==
    (~SelfHosted /\ pc = "done" /\ result = "err")
        => \A i \in 1..Len(tries) :
              /\ tries[i] >= 1
              /\ tries[i] <= maxRetries
              /\ tries[i] < maxRetries => aborted[i]

C6_Witness ==
    /\ ~SelfHosted /\ pc = "done" /\ result = "err"
    /\ tries = <<maxRetries, 2>> /\ aborted = <<FALSE, TRUE>>

\* C7: with a forced mirror, every rewritten URL requested goes through the
\* forced mirror and through no mirror of the global list nor the default.
C7_ForcedMirrorOnly ==
    (specifiedProxy # "" /\ reqURL # <<>> /\ reqURL # url)
        => /\ \E i \in 1..Len(reqURL) : reqURL[i] = specifiedProxy
           /\ \A i \in 1..Len(reqURL) :
                 /\ reqURL[i] # defaultProxy
                 /\ \A k \in 1..Len(proxies) : reqURL[i] # proxies[k]
           /\ TotalTries <= maxRetries

C7_Witness ==
    /\ specifiedProxy # "" /\ Len(proxies) >= 2
    /\ pc = "done" /\ result = "err"
    /\ reqURL # url /\ TotalTries = maxRetries

\* C8: for a self-hosted-instance URL every transfer attempt requests the
\* unmodified URL, at most maxRetries attempts are made whatever the length
\* of the global mirror list, and the forced mirror is never used.
C8_SelfHostedDirect ==
    SelfHosted =>
        /\ reqURL \in {<<>>, url}
        /\ pc \in {"create", "stream", "sleep", "rename", "stat", "verify"}
              => reqURL = url
        /\ TotalTries <= maxRetries
        /\ \A i \in 1..Len(reqURL) : reqURL[i] # specifiedProxy

C8_Witness ==
    /\ SelfHosted /\ specifiedProxy # "" /\ Len(proxies) >= 2
    /\ pc = "done" /\ result = "err" /\ TotalTries = maxRetries
    /\ reqURL = url

\* C9 as claimed: with expectedSize = 0 and no expectedSHA256, an attempt
\* whose transfer and rename succeeded (and whose file could be stat'ed) is
\* accepted: the call returns success and the file stays at the final path.
C9_UnknownSizeAccepted ==
    [][(pc = "verify" /\ expectedSize = 0 /\ expectedSHA256 = <<>>)
       => (pc' = "done" /\ result' = "ok" /\ final' = final)]_vars

\* C24: the hash check of a downloaded file against a present
\* expectedSHA256 passes only if the file's SHA-256 hex digest equals
\* expectedSHA256 up to letter case, and reports a mismatch only if the
\* digest differs from it by more than letter case.
C24_HashCheckCaseInsensitive ==
    [][(pc = "verify" /\ expectedSHA256 # <<>>)
       => LET passes == pc' = "done" /\ result' = "ok"
              mismatch == ~passes /\ lastErr' = "hash"
              sizeRejected == ~passes /\ lastErr' = "size"
          IN  /\ passes => FinalHashEquals
              /\ mismatch => ~FinalHashEquals
              /\ (final.readable /\ ~sizeRejected) => (passes \/ mismatch)]_vars

C24_Witness ==
    /\ pc = "done" /\ result = "ok" /\ TotalTries > 0
    /\ expectedSHA256 = UpperHex(SHA256Hex(final.data))
    /\ final.exists /\ Len(final.data) > 0

\* C27 as claimed: every transfer attempt of a call but the first starts
\* right after the backoff wait, whatever made the attempt before it fail.
C27_BackoffBetweenAttempts ==
    [][(pc' = "create" /\ TotalTries > 0) => pc = "sleep"]_vars

\* C28: the rename is reached only by a transfer attempt returning success
\* on the current target; a failed rename removes the temporary file and
\* ends the attempts against the current target: the next mirror is entered
\* at its first attempt, or the call fails when no target is left, as is
\* always the case on the direct path.
C28_PublishOrdering ==
    [][/\ pc' = "rename"
          => (pc = "stream" /\ xferOk'[proxyIdx'] /\ tmp'.exists
              /\ proxyIdx' = proxyIdx /\ attempt' = attempt)
       /\ (pc = "rename" /\ pc' # "stat")
          => /\ ~tmp'.exists
             /\ tries' = tries
             /\ IF proxyIdx < Len(tries) /\ ~SelfHosted
                THEN proxyIdx' = proxyIdx + 1 /\ attempt' = 1 /\ pc' = "create"
                ELSE pc' = "done" /\ result' = "err"]_vars

C28_Witness ==
    /\ lastErr = "rename" /\ pc = "create"
    /\ proxyIdx = 2 /\ attempt = 1
    /\ tries = <<1, 0>> /\ ~tmp.exists

\* C29 as claimed: after a transfer attempt failed in out.Sync(), no further
\* attempt is made against the same target.
C29_FlushFailureAborts ==
    [][(pc = "sleep" /\ lastErr = "sync")
       => (pc' = "done" \/ proxyIdx' # proxyIdx)]_vars

\* C30: a size or hash mismatch found after the rename removes the
\* published file and uses up the one attempt it belongs to; while that was
\* not the third attempt the next attempt goes to the same target, and only
\* after the third does the call go on to the next mirror (or fail).
C30_MismatchRetriesSameMirror ==
    [][(pc = "verify" /\ lastErr' \in {"size", "hash"}
        /\ ~(pc' = "done" /\ result' = "ok"))
       => /\ ~final'.exists
          /\ tries' = tries /\ tries[proxyIdx] = attempt
          /\ IF attempt < maxRetries
             THEN /\ proxyIdx' = proxyIdx /\ reqURL' = reqURL
                  /\ attempt' = attempt + 1 /\ pc' = "create"
             ELSE IF proxyIdx < Len(tries)
             THEN /\ proxyIdx' = proxyIdx + 1 /\ attempt' = 1
                  /\ pc' = "create"
             ELSE pc' = "done" /\ result' = "err"]_vars

C30_Witness ==
    /\ lastErr = "hash" /\ pc = "stream"
    /\ proxyIdx = 1 /\ attempt = 3 /\ tries = <<3, 0>>
    /\ ~final.exists

\* The file found at the final path does not match what the caller expects:
\* its size differs from expectedSize, or the size matches and the present
\* expectedSHA256 is not its digest, or the digest cannot be computed.
ExistingMismatch ==
    /\ final.exists
    /\ \/ Len(final.data) # expectedSize
       \/ /\ expectedSHA256 # <<>>
          /\ (~final.readable \/ ~FinalHashEquals)

\* C31: when the existing-file check finds a mismatching file at the final
\* path, the file is deleted before any transfer attempt and the engine goes
\* on to the first attempt; the check never returns success for that file.
C31_MismatchDeletedBeforeTransfer ==
    [][(pc = "check" /\ ExistingMismatch)
       => /\ ~final'.exists
          /\ TotalTries' = 0
          /\ pc' = "create" /\ proxyIdx' = 1 /\ attempt' = 1
          /\ result' = "none"
          /\ existing' = "redownload"]_vars

C31_Witness ==
    /\ existing = "redownload" /\ pc = "create"
    /\ expectedSHA256 # <<>>
    /\ ~final.exists /\ TotalTries = 0

\* C35: for an asset with expectedSize = 0 and no expectedSHA256 the
\* existing-file check accepts an existing file only when it is empty; a
\* non-empty one, also one a previous call downloaded successfully, is
\* deleted and downloaded again by every call.
C35_UnknownSizeRedownloads ==
    [][(pc = "check" /\ expectedSize = 0 /\ expectedSHA256 = <<>>
        /\ final.exists)
       => IF final.data = <<>>
          THEN pc' = "done" /\ result' = "ok" /\ final' = final
          ELSE /\ existing' = "redownload"
               /\ ~final'.exists
               /\ pc' = "create" /\ result' = "none"]_vars

C35_Witness ==
    /\ expectedSize = 0 /\ expectedSHA256 = <<>>
    /\ existing = "redownload" /\ pc = "create"
    /\ ~final.exists

\* C32: one call makes at most maxRetries transfer attempts per candidate
\* mirror, at most maxRetries on the direct path, whatever the transfers do;
\* and every call that was started returns, with success or with an error.
C32_AttemptBoundAndTermination ==
    /\ [](/\ TotalTries <= maxRetries * Len(Targets)
          /\ isGitLabURL(url) => TotalTries <= maxRetries
          /\ ~isGitLabURL(url) =>
                TotalTries <= maxRetries
                                * Len(proxiesToTry(specifiedProxy, proxies)))
    /\ (pc = "check" ~> (pc = "done" /\ result \in {"ok", "err"}))

C32_Witness ==
    /\ ~isGitLabURL(url)
    /\ Len(proxiesToTry(specifiedProxy, proxies)) = MaxProxies
    /\ TotalTries = maxRetries * MaxProxies
    /\ pc = "done" /\ result = "err"

\* C33: in every attempt the rename to the final path comes before the size
\* and hash checks, so the transferred, not yet verified file is at the
\* final path while they run; a failed check (os.Stat, size, hash) removes
\* the file at the final path in the same step that starts the next attempt
\* or returns the error.
C33_RenameBeforeChecks ==
    [][/\ pc' = "stat" => /\ pc = "rename"
                          /\ final'.exists /\ final'.data = tmp.data
       /\ pc' = "verify" => pc = "stat"
       /\ pc \in {"stat", "verify"} =>
             /\ final.exists
             /\ \/ pc = "stat" /\ pc' = "verify" /\ final' = final
                \/ pc' = "done" /\ result' = "ok" /\ final' = final
                \/ /\ ~final'.exists
                   /\ lastErr' \in {"stat", "size", "hash", "hasherr"}
                   /\ \/ pc' = "create"
                      \/ pc' = "done" /\ result' = "err"]_vars

\* The first attempt published a file that failed a check; the file is gone
\* as the second attempt starts.
C33_Witness ==
    /\ pc = "create" /\ attempt = 2 /\ TotalTries = 1
    /\ lastErr \in {"size", "hash"}
    /\ ~final.exists

\* The lines a batch's repos.conf is made of: a GitHub repository, a GitLab
\* repository, and a GitHub repository of the same name under another
\* owner.
BatchLines ==
    {Join(<<OwnerName, RepoName>>),
     Join(<<Gitlab, OwnerName, RepoName>>),
     Join(<<OtherOwner, RepoName>>)}

\* ------------------------------------------------- batch dispatcher
\* main's batch branch: repos loaded, downloads not started.
EngineIdle ==
    /\ goos = "posix"
    /\ url = GithubURL
    /\ expectedSize = 0
    /\ expectedSHA256 = <<>>
    /\ specifiedProxy = ""
    /\ proxies = <<>>
    /\ final = NoFile
    /\ tmp = NoFile
    /\ pc = "idle"
    /\ result = "none"
    /\ proxyIdx = 0
    /\ attempt = 0
    /\ reqURL = <<>>
    /\ lastErr = "none"
    /\ tries = <<0>>
    /\ xferOk = <<FALSE>>
    /\ aborted = <<FALSE>>
    /\ existing = "none"

InitBatch ==
    /\ EngineIdle
    /\ concurrent \in 0..MaxConcurrent
    /\ nRepos \in 0..MaxRepos
    /\ mainPc = "start"
    /\ loopIdx = 0
    /\ wg = 0
    /\ sem = 0
    /\ task = [i \in 1..MaxRepos |-> "none"]
    /\ outcome = [i \in 1..MaxRepos |-> "none"]
    /\ localPath = NoPaths
    /\ RepoIdle
    /\ args = <<>>
    /\ \E ls \in [1..nRepos -> BatchLines] :
          conf = [readable |-> TRUE, lines |-> ls]
    /\ repos = LoadRepos(conf).repos
    /\ cli = NoSelection
    /\ apiURL = NoRequests
    /\ exitStatus = -1

\* How a Process call ends: it returns nil, it returns an error (which the
\* task only logs), or it panics (fetchGitLabLatestRelease dereferences
\* gitlabReleases[0], which is nil when the server answers [null]).
Outcomes == {"ok", "err", "panic"}

\* No unrecovered panic has ended the process.
Alive == \A i \in 1..MaxRepos : outcome[i] # "crashed"

\* len(repos) == 0: main returns before the dispatch loop.
NoRepos ==
    /\ Alive
    /\ mainPc = "start"
    /\ nRepos = 0
    /\ mainPc' = "returned"
    /\ UNCHANGED <<engineVars, repoVars, mainVars, concurrent, nRepos, loopIdx, wg, sem, task, outcome, localPath>>

\* wg and sem are made; the loop starts at the first repository.
StartDispatch ==
    /\ Alive
    /\ mainPc = "start"
    /\ nRepos > 0
    /\ mainPc' = "add"
    /\ loopIdx' = 1
    /\ UNCHANGED <<engineVars, repoVars, mainVars, concurrent, nRepos, wg, sem, task, outcome, localPath>>

\* wg.Add(1)
WgAdd ==
    /\ Alive
    /\ mainPc = "add"
    /\ wg' = wg + 1
    /\ mainPc' = "acquire"
    /\ UNCHANGED <<engineVars, repoVars, mainVars, concurrent, nRepos, loopIdx, sem, task, outcome, localPath>>

\* Fault: the send never blocks.
AcquireSlotUnbounded ==
    /\ Alive
    /\ mainPc = "acquire"
    /\ sem' = sem + 1
    /\ mainPc' = "go"
    /\ UNCHANGED <<engineVars, repoVars, mainVars, concurrent, nRepos, loopIdx, wg, task, outcome, localPath>>

\* Fault: a limit of 0 is taken as 1.
AcquireSlotAtLeastOne ==
    /\ Alive
    /\ mainPc = "acquire"
    /\ sem < (IF concurrent = 0 THEN 1 ELSE concurrent)
    /\ sem' = sem + 1
    /\ mainPc' = "go"
    /\ UNCHANGED <<engineVars, repoVars, mainVars, concurrent, nRepos, loopIdx, wg, task, outcome, localPath>>

\* sem <- struct{}{}: blocks while the channel holds `concurrent` elements.
AcquireSlot ==
    /\ Alive
    /\ mainPc = "acquire"
    /\ sem < concurrent
    /\ sem' = sem + 1
    /\ mainPc' = "go"
    /\ UNCHANGED <<engineVars, repoVars, mainVars, concurrent, nRepos, loopIdx, wg, task, outcome, localPath>>

\* go func(r): the task starts; the loop moves on, or reaches wg.Wait().
StartTask ==
    /\ Alive
    /\ mainPc = "go"
    /\ task' = [task EXCEPT ![loopIdx] = "running"]
    /\ IF loopIdx < nRepos
       THEN mainPc' = "add" /\ loopIdx' = loopIdx + 1
       ELSE mainPc' = "wait" /\ loopIdx' = loopIdx
    /\ UNCHANGED <<engineVars, repoVars, mainVars, concurrent, nRepos, wg, sem, outcome, localPath>>

\* d.topDir and the paths Process* derives for an asset:
\* filepath.Join(d.topDir, repo, release.TagName, asset.Name), and the
\* temporary name downloadFileWithProxyList gives it.
TopDir == <<"downloads">>
localPathOf(repo, tag, name) ==
    TopDir \o <<"/">> \o repo \o <<"/", tag, "/">> \o name
tmpPathOf(path) == path \o <<".tmp">>

\* The tag of the latest release of every configured repository.
BatchTags == {TagPool[1]}

\* The task's Process call has fetched the latest release and calls
\* downloadFileWithProxyList for its asset; until the call returns it
\* creates, renames and removes files at the asset's two paths.
TaskDownloads(i) ==
    /\ Alive
    /\ task[i] = "running"
    /\ localPath[i] = <<>>
    /\ \E tag \in BatchTags :
          localPath' = [localPath EXCEPT ![i] =
                           localPathOf(repos[i].Repo, tag, ArchiveName)]
    /\ UNCHANGED <<engineVars, repoVars, mainVars, concurrent, nRepos, mainPc,
                   loopIdx, wg, sem, task, outcome>>

\* ProcessRepo / ProcessGitLabRepo ends, its metadata request made: the
\* goroutine's function body is left and its deferred calls are about to run.
TaskReturns(i) ==
    /\ Alive
    /\ task[i] = "running"
    /\ \E o \in outcomesOf(repos[i].Type = Gitlab, FALSE) :
          outcome' = [outcome EXCEPT ![i] = o]
    /\ apiURL' = [apiURL EXCEPT ![i] =
                     metadataURL(repos[i].Type = Gitlab, FALSE,
                                 repos[i].GitLabHost, repos[i].Owner,
                                 repos[i].Repo)]
    /\ task' = [task EXCEPT ![i] = "returned"]
    /\ localPath' = [localPath EXCEPT ![i] = <<>>]
    /\ UNCHANGED <<engineVars, repoVars, frontVars, exitStatus, concurrent,
                   nRepos, mainPc, loopIdx, wg, sem>>

\* Fault: the slot is given back on a nil return only.
ReleaseSlotOnSuccessOnly(i) ==
    /\ Alive
    /\ task[i] = "returned"
    /\ sem > 0
    /\ sem' = IF outcome[i] = "ok" THEN sem - 1 ELSE sem
    /\ task' = [task EXCEPT ![i] = "released"]
    /\ UNCHANGED <<engineVars, repoVars, mainVars, concurrent, nRepos, mainPc, loopIdx, wg, outcome, localPath>>

\* The deferred func() { <-sem }(), which runs first.
ReleaseSlot(i) ==
    /\ Alive
    /\ task[i] = "returned"
    /\ sem > 0
    /\ sem' = sem - 1
    /\ task' = [task EXCEPT ![i] = "released"]
    /\ UNCHANGED <<engineVars, repoVars, mainVars, concurrent, nRepos, mainPc, loopIdx, wg, outcome, localPath>>

\* The deferred wg.Done(), which runs last.
WgDone(i) ==
    /\ Alive
    /\ task[i] = "released"
    /\ wg' = wg - 1
    /\ task' = [task EXCEPT ![i] = "exited"]
    /\ UNCHANGED <<engineVars, repoVars, mainVars, concurrent, nRepos, mainPc, loopIdx, sem, outcome, localPath>>

\* A goroutine whose panic nobody recovers: once its deferred calls have run
\* the runtime ends the process, wherever main and the other tasks are.
Crash(i) ==
    /\ Alive
    /\ exitStatus = -1
    /\ task[i] = "exited"
    /\ outcome[i] = "panic"
    /\ outcome' = [outcome EXCEPT ![i] = "crashed"]
    /\ exitStatus' = 2
    /\ UNCHANGED <<engineVars, repoVars, frontVars, apiURL, concurrent, nRepos,
                   mainPc, loopIdx, wg, sem, task, localPath>>

\* Fault: main does not wait for the counter to reach zero.
WaitReturnsEarly ==
    /\ Alive
    /\ mainPc = "wait"
    /\ mainPc' = "complete"
    /\ UNCHANGED <<engineVars, repoVars, mainVars, concurrent, nRepos, loopIdx, wg, sem, task, outcome, localPath>>

\* main is blocked in the send and no task goroutine exists that could
\* receive (with a limit of 1 or more a full channel always has a holder):
\* the Go runtime, finding every goroutine asleep, may end the process with
\* a fatal error (status 2); whether it notices is up to the build, and main
\* stays in the send either way.
DeadlockFatal ==
    /\ Alive
    /\ exitStatus = -1
    /\ mainPc = "acquire"
    /\ sem >= concurrent
    /\ \A i \in 1..MaxRepos : task[i] \in {"none", "exited"}
    /\ exitStatus' = 2
    /\ UNCHANGED <<engineVars, repoVars, frontVars, apiURL, concurrent, nRepos,
                   mainPc, loopIdx, wg, sem, task, outcome, localPath>>

\* wg.Wait() returns; old logs are cleaned and completion is logged.
WaitReturns ==
    /\ Alive
    /\ mainPc = "wait"
    /\ wg = 0
    /\ mainPc' = "complete"
    /\ UNCHANGED <<engineVars, repoVars, mainVars, concurrent, nRepos, loopIdx, wg, sem, task, outcome, localPath>>

\* The steps main and the tasks take by themselves.
BatchSteps ==
    \/ NoRepos
    \/ StartDispatch
    \/ WgAdd
    \/ AcquireSlot
    \/ StartTask
    \/ \E i \in 1..MaxRepos : TaskDownloads(i)
    \/ \E i \in 1..MaxRepos : TaskReturns(i)
    \/ \E i \in 1..MaxRepos : ReleaseSlot(i)
    \/ \E i \in 1..MaxRepos : WgDone(i)
    \/ \E i \in 1..MaxRepos : Crash(i)
    \/ WaitReturns

NextBatch ==
    \/ BatchSteps
    \/ DeadlockFatal

SpecBatch == InitBatch /\ [][NextBatch]_vars

\* Every Process call ends (its requests are bounded by the client Timeout,
\* its retries by maxRetries) and the scheduler runs every goroutine that
\* can run: a step main or a task can take is eventually taken.  Nothing
\* obliges the runtime to report a deadlock.
SpecBatchFair == SpecBatch /\ WF_vars(BatchSteps)

\* Repository tasks whose Process call has started and whose slot is still held.
InFlight == {i \in 1..MaxRepos : task[i] \in {"running", "returned"}}

\* C10: with a limit of at least 1, the repository tasks started and not yet
\* finished never number more than the limit.
C10_InFlightBounded ==
    concurrent >= 1 => Cardinality(InFlight) <= concurrent

C10_Witness ==
    /\ concurrent = 2 /\ nRepos = 3
    /\ Cardinality(InFlight) = 2
    /\ mainPc = "acquire" /\ loopIdx = 3

\* C11: main gets past wg.Wait() (log cleanup, completion message) only when
\* every configured repository's task has run to its end, with or without an
\* error; and when main reaches wg.Wait() every configured repository's task
\* has been started, whichever of the earlier tasks returned an error.
C11_JoinBarrier ==
    /\ mainPc = "complete" => \A i \in 1..nRepos : task[i] = "exited"
    /\ mainPc \in {"wait", "complete"} => \A i \in 1..nRepos : task[i] # "none"

\* With one slot the second task starts after the first, failed, one has given
\* its slot back; main completes after both.
C11_Witness ==
    /\ concurrent = 1 /\ nRepos = 2
    /\ mainPc = "complete"
    /\ outcome[1] = "err" /\ outcome[2] = "ok"

\* The dispatcher has sent into sem for the repository at loopIdx and has not
\* yet reached the go statement.
SlotPending == IF mainPc = "go" THEN 1 ELSE 0

\* C12 as stated: in every state the slots held number the tasks in flight.
C12_Original ==
    sem = Cardinality(InFlight)

\* C12: a slot is taken before each task starts and given back once when the
\* task ends, whether it returned nil, returned an error or panicked: the
\* slots held are those of the tasks in flight and the one main has taken for
\* the task it is about to start, and none is held once every task has ended.
C12_SlotPerTask ==
    /\ sem = Cardinality(InFlight) + SlotPending
    /\ (\A i \in 1..nRepos : task[i] \in {"released", "exited"}) => sem = 0

\* Three tasks, one per exit path, have all ended.
C12_Witness ==
    /\ nRepos = 3
    /\ {outcome[i] : i \in 1..3} = Outcomes
    /\ \A i \in 1..3 : task[i] \in {"released", "exited"}
    /\ sem = 0

\* The batch is over: with no repository main returned at once, otherwise
\* every repository's task was started and has ended and main got past
\* wg.Wait().
BatchFinished ==
    IF nRepos = 0 THEN mainPc = "returned"
    ELSE /\ mainPc = "complete"
         /\ \A i \in 1..nRepos : task[i] = "exited"

\* C36: with a limit of 0 main never gets past the first send into sem: it
\* stays there, no repository's task is ever started and completion is
\* never reached; with a limit of 1 or more, and Process calls that return,
\* every repository's task is eventually started and the batch finishes.
C36_LimitZeroBlocks ==
    /\ [](concurrent = 0 =>
            /\ \A i \in 1..MaxRepos : task[i] = "none"
            /\ mainPc \in {"start", "add", "acquire", "returned"}
            /\ mainPc = "returned" => nRepos = 0
            /\ loopIdx <= 1 /\ sem = 0)
    /\ [][(concurrent = 0 /\ mainPc = "acquire") => mainPc' = "acquire"]_vars
    /\ ((concurrent >= 1 /\ mainPc = "start")
           ~> (\/ BatchFinished
               \/ \E i \in 1..MaxRepos : outcome[i] \in {"panic", "crashed"}))

\* main sits in the first send, the counter raised for a task that will
\* never start.
C36_Witness ==
    /\ concurrent = 0 /\ nRepos = MaxRepos
    /\ mainPc = "acquire" /\ loopIdx = 1 /\ wg = 1
    /\ \A i \in 1..MaxRepos : task[i] = "none"

\* The paths a task is working at: the final path of the asset it is
\* transferring and the temporary path next to it.
PathsInUse(i) ==
    IF task[i] = "running" /\ localPath[i] # <<>>
    THEN {localPath[i], tmpPathOf(localPath[i])}
    ELSE {}

\* C34 as claimed: two tasks running at the same time for repositories
\* that differ in owner or in repository name never work at a common final
\* or temporary path.
C34_DistinctReposDistinctPaths ==
    \A i, j \in 1..nRepos :
        (/\ i # j
         /\ <<repos[i].Owner, repos[i].Repo>> # <<repos[j].Owner, repos[j].Repo>>)
            => PathsInUse(i) \cap PathsInUse(j) = {}

\* ------------------------------------------------------------- main
\* The process starts: arguments and repos.conf are what they are, the
\* value of -j is any the dispatcher is looked at with.
InitMain ==
    /\ EngineIdle
    /\ RepoIdle
    /\ concurrent \in 0..MaxConcurrent
    /\ nRepos = 0
    /\ mainPc = "boot"
    /\ loopIdx = 0
    /\ wg = 0
    /\ sem = 0
    /\ task = [i \in 1..MaxRepos |-> "none"]
    /\ outcome = [i \in 1..MaxRepos |-> "none"]
    /\ localPath = NoPaths
    /\ args \in ArgLists
    /\ conf \in Confs
    /\ repos = <<>>
    /\ cli = NoSelection
    /\ apiURL = NoRequests
    /\ exitStatus = -1

\* os.Exit(code), or the runtime ending the process.
Exit(code) ==
    /\ exitStatus' = code
    /\ mainPc' = "exited"

\* getExecutableDir fails: os.Exit(1).
ExecDirFails ==
    /\ mainPc = "boot"
    /\ Exit(1)
    /\ UNCHANGED <<engineVars, repoVars, frontVars, apiURL,
                   concurrent, nRepos, loopIdx, wg, sem, task, outcome, localPath>>

\* The program directory is known; the flags are defined.
ExecDirOk ==
    /\ mainPc = "boot"
    /\ mainPc' = "flags"
    /\ UNCHANGED <<engineVars, repoVars, frontVars, apiURL, exitStatus,
                   concurrent, nRepos, loopIdx, wg, sem, task, outcome, localPath>>

\* flag.Parse() meets an undefined or malformed flag: the flag package
\* prints the usage and exits with status 2.
FlagParseFails ==
    /\ mainPc = "flags"
    /\ Exit(2)
    /\ UNCHANGED <<engineVars, repoVars, frontVars, apiURL,
                   concurrent, nRepos, loopIdx, wg, sem, task, outcome, localPath>>

\* -h: the usage is printed, os.Exit(0).
HelpRequested ==
    /\ mainPc = "flags"
    /\ Exit(0)
    /\ UNCHANGED <<engineVars, repoVars, frontVars, apiURL,
                   concurrent, nRepos, loopIdx, wg, sem, task, outcome, localPath>>

\* The flags are parsed and -h is not among them.
FlagsOk ==
    /\ mainPc = "flags"
    /\ mainPc' = "logger"
    /\ UNCHANGED <<engineVars, repoVars, frontVars, apiURL, exitStatus,
                   concurrent, nRepos, loopIdx, wg, sem, task, outcome, localPath>>

\* logger.Init fails: os.Exit(1).
LoggerInitFails ==
    /\ mainPc = "logger"
    /\ Exit(1)
    /\ UNCHANGED <<engineVars, repoVars, frontVars, apiURL,
                   concurrent, nRepos, loopIdx, wg, sem, task, outcome, localPath>>

\* The logger is up; the example files and the mirror list are dealt with,
\* whose failures are only logged.
LoggerInitOk ==
    /\ mainPc = "logger"
    /\ mainPc' = "args"
    /\ UNCHANGED <<engineVars, repoVars, frontVars, apiURL, exitStatus,
                   concurrent, nRepos, loopIdx, wg, sem, task, outcome, localPath>>

\* Two or more positional arguments: single-repository mode.
ParseArgs ==
    /\ mainPc = "args"
    /\ Len(args) >= 2
    /\ cli' = parseArgs(args)
    /\ mainPc' = "single"
    /\ UNCHANGED <<engineVars, repoVars, args, conf, repos, apiURL, exitStatus,
                   concurrent, nRepos, loopIdx, wg, sem, task, outcome, localPath>>

\* The Process* call chosen by the selection is made on main's goroutine:
\* its metadata request goes out; an error it returns is logged; a panic
\* ends the process with status 2.
SingleReturns ==
    /\ mainPc = "single"
    /\ \E o \in outcomesOf(cli.isGitLab, cli.downloadAll) :
          /\ outcome' = [outcome EXCEPT ![1] = o]
          /\ IF o = "panic" THEN Exit(2)
             ELSE mainPc' = "returned" /\ exitStatus' = exitStatus
    /\ apiURL' = [apiURL EXCEPT ![1] =
                     metadataURL(cli.isGitLab, cli.downloadAll, cli.gitLabHost,
                                 cli.owner, cli.repo)]
    /\ UNCHANGED <<engineVars, repoVars, frontVars, concurrent, nRepos,
                   loopIdx, wg, sem, task, localPath>>

\* Batch mode, LoadRepos returns an error: os.Exit(1).
LoadReposFails ==
    /\ mainPc = "args"
    /\ Len(args) < 2
    /\ LoadRepos(conf).err
    /\ Exit(1)
    /\ UNCHANGED <<engineVars, repoVars, frontVars, apiURL,
                   concurrent, nRepos, loopIdx, wg, sem, task, outcome, localPath>>

\* Batch mode, the repositories are loaded: on to the dispatcher.
LoadReposOk ==
    /\ mainPc = "args"
    /\ Len(args) < 2
    /\ ~LoadRepos(conf).err
    /\ repos' = LoadRepos(conf).repos
    /\ nRepos' = Len(LoadRepos(conf).repos)
    /\ mainPc' = "start"
    /\ UNCHANGED <<engineVars, repoVars, args, conf, cli, apiURL, exitStatus,
                   concurrent, loopIdx, wg, sem, task, outcome, localPath>>

\* Fault: main reports a repository's error in the exit status.
MainExitsReportsErrors ==
    /\ Alive
    /\ exitStatus = -1
    /\ mainPc \in {"returned", "complete"}
    /\ Exit(IF \E i \in 1..MaxRepos : outcome[i] = "err" THEN 1 ELSE 0)
    /\ UNCHANGED <<engineVars, repoVars, frontVars, apiURL,
                   concurrent, nRepos, loopIdx, wg, sem, task, outcome, localPath>>

\* main returns: the process ends with status 0.
MainExits ==
    /\ Alive
    /\ exitStatus = -1
    /\ mainPc \in {"returned", "complete"}
    /\ Exit(0)
    /\ UNCHANGED <<engineVars, repoVars, frontVars, apiURL,
                   concurrent, nRepos, loopIdx, wg, sem, task, outcome, localPath>>

NextMain ==
    \/ ExecDirFails
    \/ ExecDirOk
    \/ FlagParseFails
    \/ HelpRequested
    \/ FlagsOk
    \/ LoggerInitFails
    \/ LoggerInitOk
    \/ ParseArgs
    \/ SingleReturns
    \/ LoadReposFails
    \/ LoadReposOk
    \/ NoRepos
    \/ StartDispatch
    \/ WgAdd
    \/ AcquireSlot
    \/ StartTask
    \/ \E i \in 1..MaxRepos : TaskDownloads(i)
    \/ \E i \in 1..MaxRepos : TaskReturns(i)
    \/ \E i \in 1..MaxRepos : ReleaseSlot(i)
    \/ \E i \in 1..MaxRepos : WgDone(i)
    \/ \E i \in 1..MaxRepos : Crash(i)
    \/ WaitReturns
    \/ DeadlockFatal
    \/ MainExits

SpecMain == InitMain /\ [][NextMain]_vars

\* The repository the i-th metadata request was made for is a GitLab one,
\* and the host main holds for it ("" when the command line names none).
RequestIsGitLab(i) ==
    IF Len(args) >= 2 THEN cli.isGitLab ELSE repos[i].Type = Gitlab

RequestHost(i) ==
    IF Len(args) >= 2 THEN cli.gitLabHost ELSE repos[i].GitLabHost

\* C22 as claimed: the metadata request for a GitLab repository goes to the
\* host configured for it, and to git.ryujinx.app when none is configured.
C22_RequestGoesToConfiguredHost ==
    \A i \in 1..MaxRepos :
        (apiURL[i] # <<>> /\ RequestIsGitLab(i))
            => <<apiURL[i][2]>> = IF RequestHost(i) = <<>> THEN DefaultHost
                                  ELSE RequestHost(i)

DocumentedArgs ==
    {[args |-> <<OwnerName, RepoName>> \o tail,
      cli |-> [isGitLab |-> FALSE, gitLabHost |-> <<>>, owner |-> OwnerName,
               repo |-> RepoName, downloadAll |-> tail # <<>>]] :
        tail \in {<<>>, <<All>>}}
    \cup {[args |-> <<Gitlab, OwnerName, RepoName>> \o tail,
           cli |-> [isGitLab |-> TRUE, gitLabHost |-> <<>>, owner |-> OwnerName,
                    repo |-> RepoName, downloadAll |-> tail # <<>>]] :
             tail \in {<<>>, <<All>>}}
    \cup {[args |-> <<Gitlab, CustomHost, OwnerName, RepoName>> \o tail,
           cli |-> [isGitLab |-> TRUE, gitLabHost |-> CustomHost,
                    owner |-> OwnerName, repo |-> RepoName,
                    downloadAll |-> tail # <<>>]] :
             tail \in {<<>>, <<All>>}}

\* C25 as claimed: for every documented form of the positional arguments,
\* main's selection (provider, host, owner, repository, all-releases flag)
\* is the documented one.
C25_DocumentedArguments ==
    \A d \in DocumentedArgs :
        (mainPc = "single" /\ args = d.args) => cli = d.cli

\* The documented line formats of repos.conf, and the RepoConfig each is
\* documented to give.
DocumentedLines ==
    {[line |-> Join(<<Github, OwnerName, RepoName>> \o tail),
      cfg |-> RepoConfig(Github, OwnerName, RepoName,
                         IF tail = <<>> THEN <<>> ELSE ProxyName, <<>>)] :
        tail \in {<<>>, <<ProxyName>>}}
    \cup {[line |-> Join(<<Gitlab, OwnerName, RepoName>> \o tail),
           cfg |-> RepoConfig(Gitlab, OwnerName, RepoName,
                              IF tail = <<>> THEN <<>> ELSE ProxyName,
                              DefaultHost)] :
             tail \in {<<>>, <<ProxyName>>}}
    \cup {[line |-> Join(<<Gitlab, CustomHost, OwnerName, RepoName>> \o tail),
           cfg |-> RepoConfig(Gitlab, OwnerName, RepoName,
                              IF tail = <<>> THEN <<>> ELSE ProxyName,
                              CustomHost)] :
             tail \in {<<>>, <<ProxyName>>}}
    \cup {[line |-> Join(<<OwnerName, RepoName>> \o tail),
           cfg |-> RepoConfig(Github, OwnerName, RepoName,
                              IF tail = <<>> THEN <<>> ELSE ProxyName, <<>>)] :
             tail \in {<<>>, <<ProxyName>>}}

\* C26 as claimed: a repos.conf of one documented line loads as the one
\* RepoConfig documented for it.
C26_DocumentedLines ==
    \A d \in DocumentedLines :
        (mainPc = "start" /\ Len(args) < 2 /\ conf.lines = <<d.line>>)
            => repos = <<d.cfg>>

\* ------------------------------------------------- repository calls
\* Most releases a provider lists, and most assets of one release.
MaxReleases == 2
MaxAssets == 2

Providers == {"github", "gitlab"}
Modes == {"latest", "all"}

\* Where a provider serves an asset: under github.com, or on the default
\* GitLab instance.
assetURL(p, name) ==
    IF p = "github"
    THEN <<"https://", "github.com", "/o/r/releases/download/">> \o name
    ELSE <<"https://", "git.ryujinx.app", "/o/r/-/releases/">> \o name

\* The assets a release can carry: an archive and a manifest that lists the
\* archive as the provider serves it.  A GitHub asset (Asset) has a
\* browser_download_url and may have a digest; a GitLab link (GitLabAsset)
\* has no digest, a url, and a download_url that may be empty.  content is
\* what the asset's URLs serve.
AssetPool(p) ==
    IF p = "github"
    THEN {[name |-> ArchiveName, size |-> 1, digest |-> dg,
           content |-> <<"x">>,
           browserDownloadURL |-> assetURL(p, ArchiveName)] :
             dg \in {<<>>, Digest(<<"x">>)}}
         \cup {[name |-> SumsName, size |-> 1, digest |-> <<>>,
                content |-> <<checksumLine(SHA256Hex(<<"x">>), ArchiveName)>>,
                browserDownloadURL |-> assetURL(p, SumsName)]}
    ELSE {[name |-> ArchiveName, size |-> 1, content |-> <<"x">>,
           downloadURL |-> d, url |-> assetURL(p, ArchiveName)] :
             d \in {<<>>, assetURL(p, ArchiveName)}}
         \cup {[name |-> SumsName, size |-> 1,
                content |-> <<checksumLine(SHA256Hex(<<"x">>), ArchiveName)>>,
                downloadURL |-> assetURL(p, SumsName),
                url |-> assetURL(p, SumsName)]}

AssetLists(p) ==
    {a \in UNION {[1..n -> AssetPool(p)] : n \in 0..MaxAssets} :
        \A i, j \in 1..Len(a) : a[i].name = a[j].name => i = j}

\* The releases a provider lists: tags are distinct, or empty.
Servers(p) ==
    {sv \in UNION {[1..n -> [tag : {""} \cup {TagPool[k] : k \in 1..MaxReleases},
                             body : {<<"x">>},
                             assets : AssetLists(p)]] : n \in 0..MaxReleases} :
        \A i \in 1..Len(sv) :
            /\ sv[i].tag \in {"", TagPool[i]}
            /\ sv[i].tag = "" => sv[i].assets = <<>>}

\* fetchGitLabLatestRelease, one link to an Asset: download_url, or url
\* when download_url is empty; Asset.Digest stays empty.
linkToAsset(link) ==
    [name |-> link.name, size |-> link.size, digest |-> <<>>,
     content |-> link.content,
     browserDownloadURL |-> IF link.downloadURL = <<>> THEN link.url
                            ELSE link.downloadURL]

\* fetchGitLabAllReleases, one link to an Asset: download_url as it is.
linkToAssetAll(link) ==
    [name |-> link.name, size |-> link.size, digest |-> <<>>,
     content |-> link.content,
     browserDownloadURL |-> link.downloadURL]

\* GitLabRelease to Release in fetchGitLabLatestRelease: tag_name,
\* description and the converted links.
fromGitLab(r) ==
    [tag |-> r.tag, body |-> r.body,
     assets |-> [i \in 1..Len(r.assets) |-> linkToAsset(r.assets[i])]]

\* GitLabRelease to Release in fetchGitLabAllReleases.
fromGitLabAll(r) ==
    [tag |-> r.tag, body |-> r.body,
     assets |-> [i \in 1..Len(r.assets) |-> linkToAssetAll(r.assets[i])]]

\* downloadFileWithProxyList as its caller sees it: an existing complete
\* file is kept; otherwise the old file is removed and the call either fails
\* or leaves the served content, which passed the size check and, when a
\* digest was given, the digest check.  Nothing can be fetched from an empty
\* URL: every request for it fails.  Temporary files are left out.
Acquisitions(u, f, size, hash, served) ==
    IF checkExisting(f, size, hash) = "complete"
    THEN {[err |-> FALSE, file |-> f]}
    ELSE {[err |-> TRUE, file |-> NoFile]}
         \cup {[err |-> FALSE, file |-> g] :
                  g \in {h \in {File(served, r) : r \in BOOLEAN} :
                            /\ u # <<>>
                            /\ size > 0 => Len(served) = size
                            /\ ~sizeCheckFails(isGitLabURL(u), size, h)
                            /\ hash # <<>> => verifySHA256(h, hash).ok}}

\* A Process* call is entered; the download tree is new.
InitRepo ==
    /\ EngineIdle
    /\ BatchIdle
    /\ MainIdle
    /\ provider \in Providers
    /\ mode \in Modes
    /\ server \in Servers(provider)
    /\ reply = "none"
    /\ fetchErr = "none"
    /\ rpc = "fetch"
    /\ fetched = <<>>
    /\ relIdx = 0
    /\ assetIdx = 0
    /\ downloadedFiles = <<>>
    /\ tree = EmptyTree
    /\ ret = "none"
    /\ assetLog = NoAssetLog
    /\ releaseLog = NoReleaseLog
    /\ vpath = "none"
    /\ generated = {}
    /\ runs = 0

\* The release being processed, its directory, and the asset the loop is at.
release == fetched[relIdx]
versionDir == tree[release.tag]
asset == release.assets[assetIdx]

\* `return err` / `return nil` of a Process* function.
Return(e) ==
    /\ ret' = e
    /\ rpc' = "done"

\* The release list is in hand: on to the first release.
EnterReleases(list) ==
    /\ fetched' = list
    /\ relIdx' = 1
    /\ rpc' = "release"
    /\ ret' = ret

\* The request fails, the status is not 200, or the body does not decode:
\* every fetch function returns the error and its caller returns it.
FetchFault ==
    /\ rpc = "fetch"
    /\ \E k \in {<<"lost", "transport">>, <<"refused", "status">>,
                 <<"garbled", "decode">>} :
           reply' = k[1] /\ fetchErr' = k[2]
    /\ Return("err")
    /\ UNCHANGED <<engineVars, batchVars, mainVars, provider, mode, server, fetched,
                   relIdx, assetIdx, downloadedFiles, tree, assetLog,
                   releaseLog, vpath, generated, runs>>

\* ProcessRepo, step 1: GitHub answers releases/latest with the newest
\* release, and with status 404 when the repository has none.
FetchLatest ==
    /\ rpc = "fetch"
    /\ provider = "github" /\ mode = "latest"
    /\ IF server = <<>>
       THEN /\ reply' = "notfound"
            /\ fetchErr' = "status"
            /\ Return("err")
            /\ UNCHANGED <<fetched, relIdx>>
       ELSE /\ reply' = "list"
            /\ fetchErr' = "none"
            /\ EnterReleases(<<server[1]>>)
    /\ UNCHANGED <<engineVars, batchVars, mainVars, provider, mode, server, assetIdx,
                   downloadedFiles, tree, assetLog, releaseLog, vpath,
                   generated, runs>>

\* ProcessRepoAll, step 1: the list, which may be empty.
FetchAll ==
    /\ rpc = "fetch"
    /\ provider = "github" /\ mode = "all"
    /\ reply' = "list"
    /\ fetchErr' = "none"
    /\ IF server = <<>>
       THEN /\ fetched' = <<>>
            /\ Return("nil")
            /\ UNCHANGED relIdx
       ELSE EnterReleases(server)
    /\ UNCHANGED <<engineVars, batchVars, mainVars, provider, mode, server, assetIdx,
                   downloadedFiles, tree, assetLog, releaseLog, vpath,
                   generated, runs>>

\* ProcessGitLabRepo, step 1: fetchGitLabLatestRelease decodes the list and
\* returns an error when it is empty, the first release converted otherwise.
FetchGitLabLatest ==
    /\ rpc = "fetch"
    /\ provider = "gitlab" /\ mode = "latest"
    /\ reply' = "list"
    /\ IF server = <<>>
       THEN /\ fetchErr' = "empty"
            /\ Return("err")
            /\ UNCHANGED <<fetched, relIdx>>
       ELSE /\ fetchErr' = "none"
            /\ EnterReleases(<<fromGitLab(server[1])>>)
    /\ UNCHANGED <<engineVars, batchVars, mainVars, provider, mode, server, assetIdx,
                   downloadedFiles, tree, assetLog, releaseLog, vpath,
                   generated, runs>>

\* ProcessGitLabRepoAll, step 1: fetchGitLabAllReleases returns an error for
\* an empty list, every release converted otherwise.
FetchGitLabAll ==
    /\ rpc = "fetch"
    /\ provider = "gitlab" /\ mode = "all"
    /\ reply' = "list"
    /\ IF server = <<>>
       THEN /\ fetchErr' = "empty"
            /\ Return("err")
            /\ UNCHANGED <<fetched, relIdx>>
       ELSE /\ fetchErr' = "none"
            /\ EnterReleases([i \in 1..Len(server) |-> fromGitLabAll(server[i])])
    /\ UNCHANGED <<engineVars, batchVars, mainVars, provider, mode, server, assetIdx,
                   downloadedFiles, tree, assetLog, releaseLog, vpath,
                   generated, runs>>

\* Fault: the loop over the releases ends at the first release given up.
ContinueReleasesReturns ==
    /\ Return("err")
    /\ UNCHANGED relIdx

\* `continue` of the loop over the releases, and the `return nil` after it.
ContinueReleases ==
    IF relIdx < Len(fetched)
    THEN /\ relIdx' = relIdx + 1
         /\ rpc' = "release"
         /\ ret' = ret
    ELSE /\ Return("nil")
         /\ UNCHANGED relIdx

\* One release is given up for the reason logged: the latest-release
\* functions return (an error, or nil for an empty tag), the all-releases
\* functions go on to the next release.
GiveUpRelease(why) ==
    /\ releaseLog' = [releaseLog EXCEPT ![relIdx] = why]
    /\ IF mode = "latest"
       THEN /\ Return(IF why = "skipped" THEN "nil" ELSE "err")
            /\ UNCHANGED relIdx
       ELSE ContinueReleases

\* release.TagName == "".
EmptyTag ==
    /\ rpc = "release"
    /\ release.tag = ""
    /\ GiveUpRelease("skipped")
    /\ UNCHANGED <<engineVars, batchVars, mainVars, provider, mode, server, reply,
                   fetchErr, fetched, assetIdx, downloadedFiles, tree,
                   assetLog, vpath, generated, runs>>

\* os.MkdirAll(versionDir) fails.
MkdirFails ==
    /\ rpc = "release"
    /\ release.tag # ""
    /\ GiveUpRelease("mkdirErr")
    /\ UNCHANGED <<engineVars, batchVars, mainVars, provider, mode, server, reply,
                   fetchErr, fetched, assetIdx, downloadedFiles, tree,
                   assetLog, vpath, generated, runs>>

\* os.MkdirAll succeeds, and release_notes.txt is written, or is not, which
\* is only a warning; the asset loop starts with downloadedFiles empty.
PrepareRelease ==
    /\ rpc = "release"
    /\ release.tag # ""
    /\ \E written \in BOOLEAN :
           tree' = IF written
                   THEN [tree EXCEPT ![release.tag] =
                           Put(@, NotesName, File(notesContent(release.body), TRUE))]
                   ELSE tree
    /\ downloadedFiles' = <<>>
    /\ assetIdx' = 1
    /\ rpc' = IF release.assets = <<>> THEN "verify" ELSE "asset"
    /\ UNCHANGED <<engineVars, batchVars, mainVars, provider, mode, server, reply,
                   fetchErr, fetched, relIdx, ret, assetLog, releaseLog,
                   vpath, generated, runs>>

\* The digest handed to downloadFileWithProxyList: extractSHA256 of the
\* asset's digest for GitHub, "" for GitLab.
hashArg == IF provider = "github" THEN extractSHA256(asset.digest) ELSE <<>>

\* The loop's next asset, or step 5 after the last.
NextAsset ==
    IF assetIdx < Len(release.assets)
    THEN assetIdx' = assetIdx + 1 /\ rpc' = "asset"
    ELSE assetIdx' = assetIdx /\ rpc' = "verify"

\* What downloadFileWithProxyList can do for the asset at hand.
assetOutcomes ==
    Acquisitions(asset.browserDownloadURL, Lookup(versionDir, asset.name),
                 asset.size, hashArg, asset.content)

\* Fault: a failed asset ends the call.
AssetFailsReturns ==
    /\ rpc = "asset"
    /\ \E o \in assetOutcomes :
           /\ o.err
           /\ tree' = [tree EXCEPT ![release.tag] = Remove(@, asset.name)]
    /\ assetLog' = [assetLog EXCEPT ![relIdx] = Append(@, <<assetIdx, "err">>)]
    /\ Return("err")
    /\ UNCHANGED <<engineVars, batchVars, mainVars, provider, mode, server, reply,
                   fetchErr, fetched, relIdx, assetIdx, downloadedFiles,
                   releaseLog, vpath, generated, runs>>

\* downloadFileWithProxyList returns an error: it is logged, `continue`.
AssetFails ==
    /\ rpc = "asset"
    /\ \E o \in assetOutcomes :
           /\ o.err
           /\ tree' = [tree EXCEPT ![release.tag] = Remove(@, asset.name)]
    /\ assetLog' = [assetLog EXCEPT ![relIdx] = Append(@, <<assetIdx, "err">>)]
    /\ NextAsset
    /\ UNCHANGED <<engineVars, batchVars, mainVars, provider, mode, server, reply,
                   fetchErr, fetched, relIdx, downloadedFiles, ret,
                   releaseLog, vpath, generated, runs>>

\* downloadFileWithProxyList returns nil: the path joins downloadedFiles.
AssetDone ==
    /\ rpc = "asset"
    /\ \E o \in assetOutcomes :
           /\ ~o.err
           /\ tree' = [tree EXCEPT ![release.tag] = Put(@, asset.name, o.file)]
    /\ assetLog' = [assetLog EXCEPT ![relIdx] = Append(@, <<assetIdx, "ok">>)]
    /\ downloadedFiles' = Append(downloadedFiles, asset.name)
    /\ NextAsset
    /\ UNCHANGED <<engineVars, batchVars, mainVars, provider, mode, server, reply,
                   fetchErr, fetched, relIdx, ret, releaseLog, vpath,
                   generated, runs>>

\* verifyFiles returns an error: the latest-release functions return it, the
\* all-releases functions log it and go on.
VerifyFails ==
    /\ rpc = "verify"
    /\ \E createOk \in BOOLEAN :
           LET v == verifyFiles(versionDir, release, createOk) IN
           /\ v.err
           /\ tree' = [tree EXCEPT ![release.tag] = v.dir]
           /\ vpath' = v.path
    /\ GiveUpRelease("verifyErr")
    /\ UNCHANGED <<engineVars, batchVars, mainVars, provider, mode, server, reply,
                   fetchErr, fetched, assetIdx, downloadedFiles, assetLog,
                   generated, runs>>

\* verifyFiles returns nil: the release is complete.
VerifyPasses ==
    /\ rpc = "verify"
    /\ \E createOk \in BOOLEAN :
           LET v == verifyFiles(versionDir, release, createOk) IN
           /\ ~v.err
           /\ tree' = [tree EXCEPT ![release.tag] = v.dir]
           /\ vpath' = v.path
           /\ generated' = IF v.path = "generate"
                           THEN generated \cup {release.tag}
                           ELSE generated
    /\ releaseLog' = [releaseLog EXCEPT ![relIdx] = "done"]
    /\ IF mode = "latest"
       THEN Return("nil") /\ UNCHANGED relIdx
       ELSE ContinueReleases
    /\ UNCHANGED <<engineVars, batchVars, mainVars, provider, mode, server, reply,
                   fetchErr, fetched, assetIdx, downloadedFiles, assetLog,
                   runs>>

NextRepo ==
    \/ FetchFault
    \/ FetchLatest
    \/ FetchAll
    \/ FetchGitLabLatest
    \/ FetchGitLabAll
    \/ EmptyTag
    \/ MkdirFails
    \/ PrepareRelease
    \/ AssetFails
    \/ AssetDone
    \/ VerifyFails
    \/ VerifyPasses

SpecRepo == InitRepo /\ [][NextRepo]_vars

\* The release at r has left its asset loop.
PastAssets(r) ==
    /\ releaseLog[r] \notin {"skipped", "mkdirErr"}
    /\ \/ relIdx > r
       \/ relIdx = r /\ rpc \in {"verify", "done"}

\* C13: an asset whose acquisition fails ends neither the asset loop nor the
\* call.  A release that has left its asset loop has had each of its assets
\* attempted once, in the release's order, whatever the earlier attempts
\* gave; the call does not return inside the loop, and when it returns an
\* error the error is that of the fetch, of the directory creation or of
\* verifyFiles.
C13_AssetIsolation ==
    /\ \A r \in 1..Len(fetched) :
          PastAssets(r)
          => /\ Len(assetLog[r]) = Len(fetched[r].assets)
             /\ \A i \in 1..Len(assetLog[r]) : assetLog[r][i][1] = i
    /\ rpc = "asset" => ret = "none"
    /\ ret = "err" => \/ fetchErr # "none"
                      \/ releaseLog[relIdx] \in {"mkdirErr", "verifyErr"}

\* The first asset failed, the second was acquired, and the call returned nil.
C13_Witness ==
    /\ rpc = "done" /\ ret = "nil" /\ mode = "latest"
    /\ assetLog[1] = <<<<1, "err">>, <<2, "ok">>>>

\* C14: in all-releases mode a release given up because verifyFiles or
\* os.MkdirAll failed does not end the call: the loop reaches every release
\* of the list, in order, and the call returns an error only when the fetch
\* failed.
C14_ReleaseIsolation ==
    mode = "all"
    => /\ ret = "err" => fetchErr # "none"
       /\ \A r \in 1..Len(fetched) :
             (relIdx > r \/ rpc = "done") => releaseLog[r] # "none"
       /\ rpc = "done" /\ fetchErr = "none" => ret = "nil"

\* The first release failed verification, the second was completed, and the
\* call returned nil.
C14_Witness ==
    /\ mode = "all" /\ rpc = "done" /\ ret = "nil"
    /\ Len(fetched) = 2
    /\ releaseLog[1] = "verifyErr"
    /\ releaseLog[2] = "done"

\* Every asset of the release at hand carried a digest, and every one was
\* acquired, so that its digest was checked by downloadFileWithProxyList.
AllHashesChecked ==
    /\ Len(assetLog[relIdx]) = Len(release.assets)
    /\ \A i \in 1..Len(release.assets) :
          /\ extractSHA256(release.assets[i].digest) # <<>>
          /\ assetLog[relIdx][i] = <<i, "ok">>

\* C15: verifyFiles returns at once, without looking for a manifest, exactly
\* when every asset of the release carried a digest that was checked while
\* the asset was acquired; otherwise it goes on to the manifest search.
C15_SkipIffAllChecked ==
    [][rpc = "verify" => (vpath' = "skipped" <=> AllHashesChecked)]_vars

\* The AssetRecord of a link as the claim words it: the link's name and
\* size, no digest, and as source URL the primary download URL, or the
\* secondary URL when the primary is empty.
Normalized(link) ==
    [name |-> link.name, size |-> link.size, digest |-> <<>>,
     content |-> link.content,
     browserDownloadURL |-> IF link.downloadURL # <<>> THEN link.downloadURL
                            ELSE link.url]

\* C21 as claimed: in latest mode and in all mode alike, the first release
\* a GitLab fetch hands over is the first release of the provider's list
\* with every link normalized, so that a link whose primary download URL
\* is empty gets the secondary URL.
C21_SameNormalizationInBothModes ==
    [][(rpc = "fetch" /\ provider = "gitlab" /\ rpc' = "release")
       => /\ fetched'[1].tag = server[1].tag
          /\ fetched'[1].body = server[1].body
          /\ Len(fetched'[1].assets) = Len(server[1].assets)
          /\ \A i \in 1..Len(server[1].assets) :
                fetched'[1].assets[i] = Normalized(server[1].assets[i])]_vars

\* --------------------------------------- verifyFiles on any directory
\* Most manifests a release directory holds when verifyFiles is called.
MaxManifests == 2

\* A manifest of one line: a digest, a separator and a name.
OneLine(hash, sep, name) == File(<<hash \o sep \o name>>, TRUE)

\* What a manifest found in a release directory can say about a.zip (whose
\* content, when it is there, is "x"): the right digest in text mode, the
\* right digest in upper case and in binary mode ("*" before the name) under
\* a relative path, a wrong digest, the right SHA-512 digest, the right
\* digest in a manifest that cannot be opened, and a manifest whose lines
\* are blank or have one field.
ManifestPool ==
    {OneLine(SHA256Hex(<<"x">>), <<" ", " ">>, ArchiveName),
     OneLine(UpperHex(SHA256Hex(<<"x">>)), <<" ">>, <<"*", ".", "/">> \o ArchiveName),
     OneLine(SHA256Hex(<<"y">>), <<" ", " ">>, ArchiveName),
     OneLine(SHA512Hex(<<"x">>), <<" ", " ">>, ArchiveName),
     [OneLine(SHA256Hex(<<"x">>), <<" ", " ">>, ArchiveName) EXCEPT !.readable = FALSE],
     File(<<<<>>, <<" ">>, SHA256Hex(<<"y">>)>>, TRUE)}

\* The directories verifyFiles is called on: release_notes.txt, a.zip as
\* acquired (or missing, or unreadable), possibly a file whose name has a
\* blank, and at most MaxManifests manifests under recognized names.
VerifyDirs(tag) ==
    LET names == {checksumFiles(tag)[i] : i \in 1..6}
        manifests == UNION {[M -> ManifestPool] :
                               M \in {N \in SUBSET names : Cardinality(N) <= MaxManifests}}
        archives == {NoFile, File(<<"x">>, TRUE), File(<<"x">>, FALSE)}
        base(a, sp) ==
            LET d0 == Put(EmptyDir, NotesName, File(<<"x">>, TRUE))
                d1 == IF a.exists THEN Put(d0, ArchiveName, a) ELSE d0
            IN IF sp THEN Put(d1, SpacedName, File(<<"y">>, TRUE)) ELSE d1
    IN {[n \in (DOMAIN base(a, sp)) \cup (DOMAIN m) |->
            IF n \in DOMAIN m THEN m[n] ELSE base(a, sp)[n]] :
          a \in archives, sp \in BOOLEAN, m \in manifests}

\* ProcessRepo at step 5, for a GitHub release v1 whose one asset a.zip
\* carries a digest or none, over any of the directories above.
InitVerify ==
    /\ EngineIdle
    /\ BatchIdle
    /\ MainIdle
    /\ provider = "github"
    /\ mode = "latest"
    /\ \E a \in {x \in AssetPool("github") : x.name = ArchiveName} :
          server = <<[tag |-> TagPool[1], body |-> <<"x">>, assets |-> <<a>>]>>
    /\ reply = "list"
    /\ fetchErr = "none"
    /\ rpc = "verify"
    /\ fetched = server
    /\ relIdx = 1
    /\ assetIdx = 1
    /\ \E d \in VerifyDirs(TagPool[1]) :
          /\ tree = [EmptyTree EXCEPT ![TagPool[1]] = d]
          /\ (extractSHA256(server[1].assets[1].digest) # <<>> /\ ArchiveName \in DOMAIN d)
             => d[ArchiveName].readable
          /\ downloadedFiles = IF ArchiveName \in DOMAIN d THEN <<ArchiveName>> ELSE <<>>
          /\ assetLog = [NoAssetLog EXCEPT ![1] =
                            <<<<1, IF ArchiveName \in DOMAIN d THEN "ok" ELSE "err">>>>]
    /\ ret = "none"
    /\ releaseLog = NoReleaseLog
    /\ vpath = "none"
    /\ generated = {}
    /\ runs = 0

NextVerify ==
    \/ VerifyFails
    \/ VerifyPasses

SpecVerify == InitVerify /\ [][NextVerify]_vars

\* The recognized manifest names, in the order the specification gives.
SearchOrder ==
    <<<<"SHA256SUMS">>, <<"SHA512SUMS">>, <<"sha256sum.txt">>,
      <<"sha512sum.txt">>, <<"checksums.txt">>, <<release.tag, "_checksums.txt">>>>

\* The positions of SearchOrder whose name is in the release directory.
Present == {i \in 1..Len(SearchOrder) : SearchOrder[i] \in DOMAIN versionDir}

\* The manifest at the first such position.
FirstManifest ==
    versionDir[SearchOrder[CHOOSE i \in Present : \A j \in Present : i <= j]]

\* Bulk verification runs and finds a manifest.
ManifestFound ==
    /\ rpc = "verify"
    /\ \E i \in 1..Len(release.assets) : extractSHA256(release.assets[i].digest) = <<>>
    /\ Present # {}

\* The <<digest, file name>> pairs a manifest lists: the first two fields of
\* each line that has two, the name without "*" and without its directory.
Listed(m) ==
    {<<Fields(l)[1],
       Base(IF Head(Fields(l)[2]) = "*" THEN Tail(Fields(l)[2]) ELSE Fields(l)[2])>> :
        l \in {m.data[i] : i \in {k \in 1..Len(m.data) : Len(Fields(m.data[k])) >= 2}}}

\* A listed file cannot be hashed, or its digest is not the listed one.
EntryFails(e) ==
    LET f == Lookup(versionDir, e[2]) IN
    \/ ~(f.exists /\ f.readable)
    \/ ~EqualFold(SHA256Hex(f.data), e[1])

C17_FirstManifestDecides ==
    [][ManifestFound
       => /\ ret' = "err" <=> verifyChecksumFile(FirstManifest, versionDir)
          /\ ret' = "nil" <=> ~verifyChecksumFile(FirstManifest, versionDir)
          /\ tree' = tree]_vars

\* SHA256SUMS has the right digest of a.zip and checksums.txt a wrong one:
\* verification passed.
C17_Witness ==
    /\ rpc = "done" /\ vpath = "manifest" /\ ret = "nil"
    /\ DOMAIN versionDir = {NotesName, ArchiveName, SumsName, GeneratedName}
    /\ versionDir[ArchiveName] = File(<<"x">>, TRUE)
    /\ versionDir[SumsName] = OneLine(SHA256Hex(<<"x">>), <<" ", " ">>, ArchiveName)
    /\ versionDir[GeneratedName] = OneLine(SHA256Hex(<<"y">>), <<" ", " ">>, ArchiveName)

\* Bulk verification runs and finds no manifest.
NoManifest ==
    /\ rpc = "verify"
    /\ \E i \in 1..Len(release.assets) : extractSHA256(release.assets[i].digest) = <<>>
    /\ Present = {}

\* C18: when verifyFiles finds no manifest in a directory whose files can
\* all be read, and returns nil, checksums.txt holds one line per file of the
\* directory (itself excluded), each the SHA-256 of a file, two blanks and
\* that file's name, and checking checksums.txt against the directory as it
\* is succeeds.
C18_GenerationRoundTrip ==
    [][(/\ NoManifest
        /\ \A n \in DOMAIN versionDir : versionDir[n].readable
        /\ ret' = "nil")
       => LET after == tree'[release.tag]
              g == Lookup(after, GeneratedName)
          IN /\ g.exists
             /\ Len(g.data) = Cardinality(DOMAIN versionDir)
             /\ \A n \in DOMAIN versionDir :
                   \E i \in 1..Len(g.data) :
                       g.data[i] = SHA256Hex(versionDir[n].data) \o <<" ", " ">> \o n
             /\ ~verifyChecksumFile(g, after)]_vars

\* C37: whatever the name of the manifest found, verification passes only
\* when every listed digest is the SHA-256 of the listed file; a manifest
\* that lists the SHA-512 of an intact file fails, also under the names
\* SHA512SUMS and sha512sum.txt.
C37_OnlySHA256 ==
    [][ManifestFound
       => /\ ret' = "nil" =>
                \A e \in Listed(FirstManifest) :
                    LET f == Lookup(versionDir, e[2]) IN
                    /\ f.exists /\ f.readable
                    /\ e[1] \in {SHA256Hex(f.data), UpperHex(SHA256Hex(f.data))}
          /\ (\E e \in Listed(FirstManifest) :
                 LET f == Lookup(versionDir, e[2]) IN
                 f.exists /\ e[1] = SHA512Hex(f.data))
                => ret' = "err"]_vars

\* SHA512SUMS lists the SHA-512 of a.zip, which is intact: verification
\* failed.
C37_Witness ==
    /\ rpc = "done" /\ vpath = "manifest" /\ ret = "err"
    /\ DOMAIN versionDir = {NotesName, ArchiveName, <<"SHA512SUMS">>}
    /\ versionDir[ArchiveName] = File(<<"x">>, TRUE)
    /\ versionDir[<<"SHA512SUMS">>] =
          OneLine(SHA512Hex(<<"x">>), <<" ", " ">>, ArchiveName)

\* ------------------------------------------ one release, run after run
\* Most runs of the program after the first.
MaxRuns == 2

\* release.Body as the provider returns it: empty, or a text.
Bodies == {<<>>, <<"x">>}

\* The first run of ProcessRepo on a GitHub repository with one release, into
\* a new download tree.
InitRuns ==
    /\ EngineIdle
    /\ BatchIdle
    /\ MainIdle
    /\ provider = "github"
    /\ mode = "latest"
    /\ \E b \in Bodies, a \in AssetLists("github") :
          server = <<[tag |-> TagPool[1], body |-> b, assets |-> a]>>
    /\ reply = "none"
    /\ fetchErr = "none"
    /\ rpc = "fetch"
    /\ fetched = <<>>
    /\ relIdx = 0
    /\ assetIdx = 0
    /\ downloadedFiles = <<>>
    /\ tree = EmptyTree
    /\ ret = "none"
    /\ assetLog = NoAssetLog
    /\ releaseLog = NoReleaseLog
    /\ vpath = "none"
    /\ generated = {}
    /\ runs = 0

\* Between two runs the maintainers edit the text of the release.
ReleaseEdited ==
    /\ rpc = "done"
    /\ \E b \in Bodies \ {server[1].body} :
          server' = [server EXCEPT ![1].body = b]
    /\ UNCHANGED <<engineVars, batchVars, mainVars, provider, mode, reply, fetchErr, rpc,
                   fetched, relIdx, assetIdx, downloadedFiles, tree, ret,
                   assetLog, releaseLog, vpath, generated, runs>>

\* The program is started again on the same repository and download tree:
\* main calls ProcessRepo with a new log.
Rerun ==
    /\ rpc = "done"
    /\ runs < MaxRuns
    /\ runs' = runs + 1
    /\ rpc' = "fetch"
    /\ reply' = "none"
    /\ fetchErr' = "none"
    /\ fetched' = <<>>
    /\ relIdx' = 0
    /\ assetIdx' = 0
    /\ downloadedFiles' = <<>>
    /\ ret' = "none"
    /\ assetLog' = NoAssetLog
    /\ releaseLog' = NoReleaseLog
    /\ vpath' = "none"
    /\ UNCHANGED <<engineVars, batchVars, mainVars, provider, mode, server, tree, generated>>

NextRuns ==
    \/ FetchFault
    \/ FetchLatest
    \/ MkdirFails
    \/ PrepareRelease
    \/ AssetFails
    \/ AssetDone
    \/ VerifyFails
    \/ VerifyPasses
    \/ ReleaseEdited
    \/ Rerun

SpecRuns == InitRuns /\ [][NextRuns]_vars

\* verifyFiles is about to read the checksums.txt that an earlier run's
\* verifyFiles generated in this directory.
ReadsGenerated ==
    /\ ManifestFound
    /\ release.tag \in generated
    /\ SearchOrder[CHOOSE i \in Present : \A j \in Present : i <= j] = <<"checksums.txt">>

\* C19: a checksums.txt generated by an earlier run is not used as an
\* authoritative manifest by a later run: it does not make the later run's
\* verification of the release fail.
C19_GeneratedIsAdvisory ==
    [][ReadsGenerated => ret' # "err"]_vars

\* The provider answered, and the repository has no release.
ZeroReleases ==
    /\ rpc = "done"
    /\ server = <<>>
    /\ reply \in {"list", "notfound"}

\* C20: when the provider returns zero releases the call ends without an
\* error, and the outcome of the fetch is not a status, transport or decode
\* error: for GitHub and GitLab, in latest and in all-releases mode.
C20_ZeroReleasesClean ==
    ZeroReleases => /\ ret = "nil"
                    /\ fetchErr \notin {"status", "transport", "decode"}

====
